---------------------------- MODULE Spec2Model ----------------------------
(***************************************************************************)
(* CellWay backend: route optimisation (routing_service.py), tower search  *)
(* (tower_service.py, utils/geometry.py).                                  *)
(*                                                                         *)
(* Numbers.  Coordinates are integers in hundredths of a degree (cdeg),    *)
(* written <<lon, lat>> as in GeoJSON.  Every other real of the code (a     *)
(* duration in seconds, an average signal, the normalised scores, a        *)
(* position along a route) is an exact rational                            *)
(* [n |-> numerator, d |-> denominator > 0] in lowest terms.               *)
(***************************************************************************)
EXTENDS Integers, Sequences, FiniteSets, TLC

\* ------------------------------------------------------------------ bounds
MaxRoutes == 3          \* candidate routes handed to the selector
MaxTowers == 2          \* towers in the area handed to the selector
MaxSaves == 5           \* save_route calls in one behaviour
MaxSaveClock == 3       \* minutes the clock runs while routes are saved
MaxNearbyTowers == 205  \* towers the proximity search finds along one route
MaxThreads == 2         \* threads that run one handler at the same time
MaxConcurrentLogins == 8  \* login_user calls in one behaviour of concurrent calls
MaxLogins == 9          \* login_user calls in one behaviour
MaxClock == 16          \* minutes the clock runs while users log in
MaxProviderRoutes == 2  \* routes in one routing-provider answer

\* ------------------------------------------------------------- evaluation
\* With(e, LAMBDA v : body) is body with v = e, and e is evaluated once
With(e, F(_)) == CHOOSE r \in {F(v) : v \in {e}} : TRUE
With2(e1, e2, F(_, _)) == CHOOSE r \in {F(v, w) : v \in {e1}, w \in {e2}} : TRUE

\* ------------------------------------------------------------- arithmetic
Abs(x) == With(x, LAMBDA v : IF v < 0 THEN -v ELSE v)
Min2(a, b) == With2(a, b, LAMBDA x, y : IF x < y THEN x ELSE y)
Max2(a, b) == With2(a, b, LAMBDA x, y : IF x > y THEN x ELSE y)

RECURSIVE GCD(_, _)
GCD(a, b) == With2(a, b, LAMBDA x, y : IF y = 0 THEN x ELSE GCD(y, x % y))

RECURSIVE ISqrtIter(_, _, _)
ISqrtIter(n, lo, hi) ==
    With2(lo, hi, LAMBDA l, h :
        IF l >= h THEN l
        ELSE With((l + h + 1) \div 2, LAMBDA mid :
                 IF mid * mid <= n THEN ISqrtIter(n, mid, h) ELSE ISqrtIter(n, l, mid - 1)))

\* floor of the square root, n >= 0
ISqrt(n) == With(n, LAMBDA v : ISqrtIter(v, 0, IF v < 46340 THEN v ELSE 46340))

\* the rational n/d in lowest terms, d # 0
Rat(n, d) ==
    With2(n, d, LAMBDA x, y :
        With(GCD(Abs(x), Abs(y)), LAMBDA g :
            IF y < 0 THEN [n |-> (-x) \div g, d |-> (-y) \div g]
            ELSE [n |-> x \div g, d |-> y \div g]))
RInt(k) == [n |-> k, d |-> 1]
RLess(a, b) == With2(a, b, LAMBDA x, y : x.n * y.d < y.n * x.d)
RLeq(a, b) == With2(a, b, LAMBDA x, y : x.n * y.d <= y.n * x.d)
REq(a, b) == With2(a, b, LAMBDA x, y : x.n * y.d = y.n * x.d)
RAdd(a, b) == With2(a, b, LAMBDA x, y : Rat(x.n * y.d + y.n * x.d, x.d * y.d))
RSub(a, b) == With2(a, b, LAMBDA x, y : Rat(x.n * y.d - y.n * x.d, x.d * y.d))
RMul(a, b) == With2(a, b, LAMBDA x, y : Rat(x.n * y.n, x.d * y.d))
RDiv(a, b) == With2(a, b, LAMBDA x, y : Rat(x.n * y.d, x.d * y.n))
\* Python's max(a, b) and min(a, b): the first argument wins a tie
RMax(a, b) == With2(a, b, LAMBDA x, y : IF RLess(x, y) THEN y ELSE x)
RMin(a, b) == With2(a, b, LAMBDA x, y : IF RLess(y, x) THEN y ELSE x)
RMinOf(S) == With(S, LAMBDA s : CHOOSE x \in s : \A y \in s : RLeq(x, y))
RMaxOf(S) == With(S, LAMBDA s : CHOOSE x \in s : \A y \in s : RLeq(y, x))

\* max(0.0, min(1.0, x))
Clamp01(x) == RMax(RInt(0), RMin(RInt(1), x))

\* Python's sorted(seq, key=...): a stable sort; Less is the strict order of the keys
\* (f \o <<>> is the function f as an explicit sequence)
StableSort(seq, Less(_, _)) ==
    With(seq, LAMBDA s :
        LET n == Len(s)
            rank(i) == Cardinality({j \in 1..n :
                            \/ Less(s[j], s[i])
                            \/ (~Less(s[i], s[j]) /\ j < i)}) + 1
        IN [k \in 1..n |-> s[CHOOSE i \in 1..n : rank(i) = k]] \o <<>>)

\* the sequences over S of length at most n
SeqUpTo(S, n) == UNION {[1..k -> S] : k \in 0..n}
\* those without a repeated element
DistinctSeqUpTo(S, n) == {s \in SeqUpTo(S, n) : \A i, j \in 1..Len(s) : i # j => s[i] # s[j]}

None == [none |-> TRUE]

\* ------------------------------------------------------ utils/geometry.py
EARTH_METERS_PER_CDEG == 1112   \* 6371000 m * pi / 180 / 100, rounded
METERS_PER_DEGREE_APPROX == 111000
CDEG_PER_DEGREE == 100

\* cos(lat)^2 as a rational, for the latitude bands the model places points in:
\* within 1 degree of the equator (1) and within 1 degree of 60 N (1/4)
CosSq(lat) == IF Abs(lat) <= 100 THEN [n |-> 1, d |-> 1] ELSE [n |-> 1, d |-> 4]

\* haversine_distance, squared, in m^2, between the point <<lon, lat>> = P and the
\* point P - <<ox, oy>> / oq.  For separations of a few km sin x = x and
\* asin x = x to 1e-7, which gives R^2 (dlat^2 + cos(lat)^2 dlon^2).
haversine_sq(P, ox, oy, oq) ==
    With(CosSq(P[2]), LAMBDA c :
        Rat(EARTH_METERS_PER_CDEG * EARTH_METERS_PER_CDEG * (oy * oy * c.d + ox * ox * c.n),
            oq * oq * c.d))

\* the point of the segment A-B at parameter tn/td: the point <<nx, ny>> / q and
\* the offset P - point = <<ox, oy>> / oq
PointAt(P, A, B, tn, td) ==
    With2(A[1] * td + tn * (B[1] - A[1]), A[2] * td + tn * (B[2] - A[2]), LAMBDA nx, ny :
        With2(P[1] * td - nx, P[2] * td - ny, LAMBDA ox, oy :
            With(GCD(GCD(Abs(ox), Abs(oy)), td), LAMBDA g :
                [tn |-> tn, td |-> td, nx |-> nx, ny |-> ny, q |-> td,
                 ox |-> ox \div g, oy |-> oy \div g, oq |-> td \div g])))

\* the nearest point of the segment A-B to P
PointSegment(P, A, B) ==
    With2((B[1] - A[1]) * (B[1] - A[1]) + (B[2] - A[2]) * (B[2] - A[2]),
          (P[1] - A[1]) * (B[1] - A[1]) + (P[2] - A[2]) * (B[2] - A[2]),
          LAMBDA L2, dot :
              IF L2 = 0 \/ dot <= 0 THEN PointAt(P, A, B, 0, 1)
              ELSE IF dot >= L2 THEN PointAt(P, A, B, 1, 1)
              ELSE With(GCD(dot, L2), LAMBDA g : PointAt(P, A, B, dot \div g, L2 \div g)))

\* planar distance squared (cdeg^2) of a PointSegment answer
PlanarSq(ps) == Rat(ps.ox * ps.ox + ps.oy * ps.oy, ps.oq * ps.oq)

\* LineString.distance / nearest_points: the nearest point of the polyline and
\* its segment, the first segment on a tie
NearestOnLine(P, coords) ==
    With([i \in 1..(Len(coords) - 1) |->
             [seg |-> i] @@ PointSegment(P, coords[i], coords[i + 1])] \o <<>>,
         LAMBDA c :
             c[CHOOSE i \in 1..Len(c) : \A j \in 1..Len(c) :
                  IF j < i THEN RLess(PlanarSq(c[i]), PlanarSq(c[j]))
                  ELSE RLeq(PlanarSq(c[i]), PlanarSq(c[j]))])

SegLength(A, B) == ISqrt((B[1] - A[1]) * (B[1] - A[1]) + (B[2] - A[2]) * (B[2] - A[2]))

\* LineString.length up to segment k (planar, in cdeg); the model's polylines
\* have segments of integral length
RECURSIVE LengthUpTo(_, _)
LengthUpTo(coords, k) ==
    With(k, LAMBDA m :
        IF m <= 0 THEN 0
        ELSE LengthUpTo(coords, m - 1) + SegLength(coords[m], coords[m + 1]))

route_length(coords) == LengthUpTo(coords, Len(coords) - 1)

\* LineString.project of the nearest point: arc length from the start
position_degrees(coords, ps) ==
    RAdd(RInt(LengthUpTo(coords, ps.seg - 1)),
         Rat(ps.tn * SegLength(coords[ps.seg], coords[ps.seg + 1]), ps.td))

position_normalized(coords, ps) ==
    With(route_length(coords), LAMBDA len :
        IF len > 0 THEN RDiv(position_degrees(coords, ps), RInt(len)) ELSE RInt(0))

\* a coordinate value Point() does not take as a number
NotANumber == -999999
IsNumber(v) == v # NotANumber

\* float('inf'): greater than every finite distance
Infinity == 2147483647

\* mutant: a coordinate that is no number counts as distance 0
haversine_distance_Zero(lat1, lon1, lat2, lon2) ==
    IF \E v \in {lat1, lon1, lat2, lon2} : ~IsNumber(v) THEN 0
    ELSE With(haversine_sq(<<lon1, lat1>>, lon1 - lon2, lat1 - lat2, 1),
              LAMBDA d2 : ISqrt(d2.n \div d2.d))

\* haversine_distance in whole metres: math.radians raises TypeError on a
\* coordinate that is no number, and the handler returns infinity
haversine_distance(lat1, lon1, lat2, lon2) ==
    IF \E v \in {lat1, lon1, lat2, lon2} : ~IsNumber(v) THEN Infinity
    ELSE With(haversine_sq(<<lon1, lat1>>, lon1 - lon2, lat1 - lat2, 1),
              LAMBDA d2 : ISqrt(d2.n \div d2.d))

\* a tower record the test 'lat' in tower can be made on; None stands for the
\* values it raises TypeError on (None, numbers)
IsMapping(tower) == tower # None

\* distance_degrees <= max_dist_degrees_approx * 1.5, in cdeg and squared
WithinCoarseFilter(ps, max_distance_meters) ==
    With2((METERS_PER_DEGREE_APPROX * 2) \div (3 * CDEG_PER_DEGREE), PlanarSq(ps),
          LAMBDA k, d : d.n * k * k <= max_distance_meters * max_distance_meters * d.d)

\* tower.copy() with the two keys set
TowerCopy(tower, distance_meters, position) ==
    [distanceToRoute |-> distance_meters, positionAlongRoute |-> position] @@ tower

\* mutant: the copy is made after the coarse filter alone
AugmentedCopy_CoarseOnly(route_coords, tower, max_distance_meters) ==
    IF "lat" \notin DOMAIN tower \/ "lon" \notin DOMAIN tower THEN <<>>
    ELSE IF ~IsNumber(tower.lat) \/ ~IsNumber(tower.lon) THEN <<>>
    ELSE
    With(NearestOnLine(<<tower.lon, tower.lat>>, route_coords), LAMBDA ps :
        With(haversine_sq(<<tower.lon, tower.lat>>, ps.ox, ps.oy, ps.oq), LAMBDA d2 :
            IF WithinCoarseFilter(ps, max_distance_meters)
            THEN << TowerCopy(tower, ISqrt(d2.n \div d2.d),
                              Clamp01(position_normalized(route_coords, ps))) >>
            ELSE <<>>))

\* the body of the loop over the towers: the tower's augmented copy if it has both
\* coordinates, they are numbers and it passes both distance checks, as a sequence
\* of at most one record
AugmentedCopy(route_coords, tower, max_distance_meters) ==
    IF "lat" \notin DOMAIN tower \/ "lon" \notin DOMAIN tower THEN <<>>
    ELSE IF ~IsNumber(tower.lat) \/ ~IsNumber(tower.lon) THEN <<>>
    ELSE
    With(NearestOnLine(<<tower.lon, tower.lat>>, route_coords), LAMBDA ps :
        With(haversine_sq(<<tower.lon, tower.lat>>, ps.ox, ps.oy, ps.oq), LAMBDA d2 :
            IF /\ WithinCoarseFilter(ps, max_distance_meters)
               /\ d2.n <= max_distance_meters * max_distance_meters * d2.d
            THEN << TowerCopy(tower, ISqrt(d2.n \div d2.d),
                              Clamp01(position_normalized(route_coords, ps))) >>
            ELSE <<>>))

\* nearby_towers after the loop has passed the first i towers
RECURSIVE NearbyTowers(_, _, _, _)
NearbyTowers(route_coords, towers, i, max_distance_meters) ==
    With(i, LAMBDA k :
        IF k = 0 THEN <<>>
        ELSE NearbyTowers(route_coords, towers, k - 1, max_distance_meters)
                \o AugmentedCopy(route_coords, towers[k], max_distance_meters))

PositionLess(a, b) == RLess(a.positionAlongRoute, b.positionAlongRoute)
DistanceLess(a, b) == a.distanceToRoute < b.distanceToRoute

\* mutant: without the guard, a route that is no line gets every tower
find_towers_near_route_shapely_NoGuard(route_coords, towers, max_distance_meters) ==
    With2(route_coords, towers, LAMBDA rc, ts :
        IF Len(rc) < 2 THEN ts
        ELSE IF Len(ts) = 0 THEN <<>>
        ELSE IF \E i \in 1..Len(ts) : ~IsMapping(ts[i]) THEN <<>>
        ELSE StableSort(NearbyTowers(rc, ts, Len(ts), max_distance_meters), PositionLess))

\* mutant: the result is ordered by distance to the route
find_towers_near_route_shapely_ByDistance(route_coords, towers, max_distance_meters) ==
    With2(route_coords, towers, LAMBDA rc, ts :
        IF Len(rc) < 2 \/ Len(ts) = 0 THEN <<>>
        ELSE IF \E i \in 1..Len(ts) : ~IsMapping(ts[i]) THEN <<>>
        ELSE StableSort(NearbyTowers(rc, ts, Len(ts), max_distance_meters), DistanceLess))

\* the guard first; a tower that is no mapping raises in the loop outside the
\* per-tower try, and the handler of the whole search returns []
find_towers_near_route_shapely(route_coords, towers, max_distance_meters) ==
    With2(route_coords, towers, LAMBDA rc, ts :
        IF Len(rc) < 2 \/ Len(ts) = 0 THEN <<>>
        ELSE IF \E i \in 1..Len(ts) : ~IsMapping(ts[i]) THEN <<>>
        ELSE StableSort(NearbyTowers(rc, ts, Len(ts), max_distance_meters), PositionLess))

\* mutant: the two keys are written into the input records
InputAfterSearch_InPlace(route_coords, towers, max_distance_meters) ==
    With2(route_coords, towers, LAMBDA rc, ts :
        IF Len(rc) < 2 THEN ts
        ELSE [i \in 1..Len(ts) |->
                 IF IsMapping(ts[i]) /\ AugmentedCopy(rc, ts[i], max_distance_meters) # <<>>
                 THEN AugmentedCopy(rc, ts[i], max_distance_meters)[1]
                 ELSE ts[i]] \o <<>>)

\* the input list after the search: the loop writes into copies only
InputAfterSearch(route_coords, towers, max_distance_meters) == towers

\* ------------------------------------------------ services/tower_service.py
MAX_TOWERS_ALONG_ROUTE == 200

\* the pairs <<i, n>>, 200 < n <= 225, for which the double product i * (n / 200)
\* is below the integer i * n / 200: 205 / 200 is the double 1.025 and 120 * 1.025
\* is the double 122.99999999999999
DoubleProductBelow == { <<120, 205>> }

\* int(i * (num_nearby_towers / MAX_TOWERS_ALONG_ROUTE)) in double arithmetic, for
\* num_nearby_towers up to 225: the product is exact or rounded to a nearest
\* double, which lies below an integer only where the exact product is one
sample_index(i, num_nearby_towers) ==
    ((i * num_nearby_towers) \div MAX_TOWERS_ALONG_ROUTE)
        - (IF <<i, num_nearby_towers>> \in DoubleProductBelow THEN 1 ELSE 0)

\* mutant: the first 200 towers are kept
SampleTowers_Head(nearby_cell_towers) ==
    IF Len(nearby_cell_towers) > MAX_TOWERS_ALONG_ROUTE
    THEN SubSeq(nearby_cell_towers, 1, MAX_TOWERS_ALONG_ROUTE)
    ELSE nearby_cell_towers

\* the size cap: sampled_towers for more than 200 towers, else the list itself
SampleTowers(nearby_cell_towers) ==
    With(nearby_cell_towers, LAMBDA nearby :
        IF Len(nearby) > MAX_TOWERS_ALONG_ROUTE
        THEN [i \in 1..MAX_TOWERS_ALONG_ROUTE |->
                 nearby[sample_index(i - 1, Len(nearby)) + 1]] \o <<>>
        ELSE nearby)

find_towers_along_route(route_coordinates, area_towers, max_distance_meters) ==
    With2(route_coordinates, area_towers, LAMBDA rc, ts :
        IF Len(rc) = 0 \/ Len(ts) = 0 THEN <<>>
        ELSE SampleTowers(find_towers_near_route_shapely(rc, ts, max_distance_meters)))

\* ---------------------------------------------- services/routing_service.py
TOWER_PROXIMITY_METERS == 2500
NO_TOWER_SIGNAL == -120

RECURSIVE SumSignal(_, _)
SumSignal(towers, i) ==
    With(i, LAMBDA k :
        IF k = 0 THEN 0 ELSE SumSignal(towers, k - 1) + towers[k].averageSignal)

\* one pass of the scoring loop: the route_score record of candidate `index` (0-based)
ScoreRoute(route, index, towers_in_area) ==
    With(find_towers_along_route(route.geometry, towers_in_area, TOWER_PROXIMITY_METERS),
         LAMBDA towers_along_route :
             [route |-> route,
              towers |-> towers_along_route,
              tower_count |-> Len(towers_along_route),
              avg_signal |->
                  IF Len(towers_along_route) > 0
                  THEN Rat(SumSignal(towers_along_route, Len(towers_along_route)),
                           Len(towers_along_route))
                  ELSE RInt(NO_TOWER_SIGNAL),
              duration |-> route.duration,
              index |-> index])

routes_with_scores(alternative_routes, towers_in_area) ==
    With2(alternative_routes, towers_in_area, LAMBDA rs, ts :
        [i \in 1..Len(rs) |-> ScoreRoute(rs[i], i - 1, ts)] \o <<>>)

\* max(1, max_x - min_x)
ScoreRange(lo, hi) == RMax(RInt(1), RSub(hi, lo))

\* mutant: the duration score is not inverted
NormalizedScore_NotInverted(rs, min_duration, duration_range, min_signal, signal_range) ==
    With2(Clamp01(RDiv(RSub(rs.duration, min_duration), duration_range)),
          Clamp01(RDiv(RSub(rs.avg_signal, min_signal), signal_range)),
          LAMBDA nd, ns :
              rs @@ [norm_duration |-> nd, norm_signal |-> ns,
                     balanced_score |-> RAdd(RMul(nd, Rat(1, 2)), RMul(ns, Rat(1, 2)))])

\* the scores the normalisation loop adds to one route_score record
NormalizedScore(rs, min_duration, duration_range, min_signal, signal_range) ==
    With2(RSub(RInt(1), Clamp01(RDiv(RSub(rs.duration, min_duration), duration_range))),
          Clamp01(RDiv(RSub(rs.avg_signal, min_signal), signal_range)),
          LAMBDA nd, ns :
              rs @@ [norm_duration |-> nd, norm_signal |-> ns,
                     balanced_score |-> RAdd(RMul(nd, Rat(1, 2)), RMul(ns, Rat(1, 2)))])

\* the normalisation: norm_duration, norm_signal and balanced_score of every record
Normalize(rws) ==
    With(rws, LAMBDA r :
    With2({r[i].duration : i \in 1..Len(r)}, {r[i].avg_signal : i \in 1..Len(r)},
          LAMBDA durations, signals :
    With2(RMinOf(durations), RMinOf(signals), LAMBDA min_duration, min_signal :
    With2(ScoreRange(min_duration, RMaxOf(durations)),
          ScoreRange(min_signal, RMaxOf(signals)),
          LAMBDA duration_range, signal_range :
              [i \in 1..Len(r) |->
                  NormalizedScore(r[i], min_duration, duration_range,
                                  min_signal, signal_range)] \o <<>>))))

DurationLess(a, b) == RLess(a.duration, b.duration)
\* mutant: tower_count does not break ties of avg_signal
SignalLess_NoTowerCount(a, b) == RLess(b.avg_signal, a.avg_signal)

SignalLess(a, b) ==
    \/ RLess(b.avg_signal, a.avg_signal)
    \/ (REq(a.avg_signal, b.avg_signal) /\ b.tower_count < a.tower_count)
BalancedLess(a, b) == RLess(b.balanced_score, a.balanced_score)

\* mutant: among equal durations the last candidate comes first
routes_sorted_by_duration_LastTie(rws) ==
    With(rws, LAMBDA r :
        StableSort([i \in 1..Len(r) |-> r[Len(r) + 1 - i]] \o <<>>, DurationLess))

routes_sorted_by_duration(rws) == StableSort(rws, DurationLess)
routes_sorted_by_signal(rws) == StableSort(rws, SignalLess)
routes_sorted_by_balanced(rws) == StableSort(rws, BalancedLess)

\* mutant: no diversity scan, the top of the ranking is always taken
DiversePick_TopOnly(sorted, selected_route_indices) == sorted[1]

\* mutant: the scan keeps the last unselected entry instead of stopping at the first
DiversePick_LastUnused(sorted, selected_route_indices) ==
    With2(sorted, selected_route_indices, LAMBDA s, used :
        LET alternatives == {k \in 2..Len(s) : s[k].index \notin used}
        IN IF s[1].index \in used /\ alternatives # {}
           THEN s[CHOOSE k \in alternatives : \A m \in alternatives : k >= m]
           ELSE s[1])

\* the diversity step of one key: the top of the ranking unless its index is
\* already selected, then the first later entry whose index is not, else the top
DiversePick(sorted, selected_route_indices) ==
    With2(sorted, selected_route_indices, LAMBDA s, used :
        LET alternatives == {k \in 2..Len(s) : s[k].index \notin used}
        IN IF s[1].index \in used /\ alternatives # {}
           THEN s[CHOOSE k \in alternatives : \A m \in alternatives : k <= m]
           ELSE s[1])

\* mutant: the 'balanced' scan checks against the 'fastest' index only
final_route_selection_FastestOnly(scored) ==
    With(scored, LAMBDA sc :
    With(routes_sorted_by_duration(sc)[1], LAMBDA fastest :
    With(DiversePick(routes_sorted_by_signal(sc), {fastest.index}), LAMBDA cell :
    With(DiversePick(routes_sorted_by_balanced(sc), {fastest.index}),
         LAMBDA balanced :
             [fastest |-> fastest, cell_coverage |-> cell, balanced |-> balanced]))))

\* the three route_score records chosen, for a non-empty scored list
final_route_selection(scored) ==
    With(scored, LAMBDA sc :
    With(routes_sorted_by_duration(sc)[1], LAMBDA fastest :
    With(DiversePick(routes_sorted_by_signal(sc), {fastest.index}), LAMBDA cell :
    With(DiversePick(routes_sorted_by_balanced(sc), {fastest.index, cell.index}),
         LAMBDA balanced :
             [fastest |-> fastest, cell_coverage |-> cell, balanced |-> balanced]))))

OptimizationTypes == {"fastest", "cell_coverage", "balanced"}

NoRoutePick == [route |-> None, towers |-> <<>>]

\* mutant: the early return leaves out the 'balanced' key
EmptySelection_TwoKeys == [k \in {"fastest", "cell_coverage"} |-> NoRoutePick]

EmptySelection == [k \in OptimizationTypes |-> NoRoutePick]

\* mutant: every key carries the towers of the 'fastest' record
SelectionOutput_FastestTowers(chosen) ==
    With(chosen, LAMBDA c :
        [k \in OptimizationTypes |->
            IF c[k].route # None
            THEN [route |-> c[k].route, towers |-> c["fastest"].towers]
            ELSE NoRoutePick])

\* the returned dictionary is built from the route and towers of each chosen record
SelectionOutput(chosen) ==
    With(chosen, LAMBDA c :
        [k \in OptimizationTypes |->
            IF c[k].route # None
            THEN [route |-> c[k].route, towers |-> c[k].towers]
            ELSE NoRoutePick])

\* the scored, normalised candidates of a call (routes_with_scores at the return)
ScoredRoutes(routes, towers) ==
    With(routes, LAMBDA rs :
        IF Len(rs) = 0 THEN <<>> ELSE Normalize(routes_with_scores(rs, towers)))

\* the chosen records of a call (final_route_selection), None after the early return
ChosenRoutes(scored) ==
    With(scored, LAMBDA sc : IF Len(sc) = 0 THEN None ELSE final_route_selection(sc))

\* the returned dictionary
SelectionReturned(chosen) ==
    With(chosen, LAMBDA c : IF c = None THEN EmptySelection ELSE SelectionOutput(c))

_select_optimized_routes(routes, towers) ==
    SelectionReturned(ChosenRoutes(ScoredRoutes(routes, towers)))

\* the candidate indices behind the three keys (the 'index' fields the code logs)
SelectedIndices(chosen) ==
    With(chosen, LAMBDA c :
        IF c = None THEN None ELSE [k \in OptimizationTypes |-> c[k].index])

\* ------------------------------------------------------------ model inputs
\* polylines <<lon, lat>> in cdeg near the equator; durations of 1, 1.5 and 3 s
G1 == << <<0, 0>>, <<4, 0>> >>
G2 == << <<0, 0>>, <<0, 4>> >>
G3 == << <<0, 0>>, <<4, 0>>, <<4, 4>> >>

CandidateRoutes ==
    { [geometry |-> G1, duration |-> Rat(1, 1)], [geometry |-> G1, duration |-> Rat(3, 1)],
      [geometry |-> G2, duration |-> Rat(3, 2)], [geometry |-> G2, duration |-> Rat(3, 1)],
      [geometry |-> G3, duration |-> Rat(1, 1)], [geometry |-> G3, duration |-> Rat(3, 2)] }

TowerPool ==
    { [id |-> 1, lon |-> 2, lat |-> 1, averageSignal |-> -70],
      [id |-> 2, lon |-> 0, lat |-> 3, averageSignal |-> -90],
      [id |-> 3, lon |-> 4, lat |-> 3, averageSignal |-> -110],
      [id |-> 4, lon |-> 0, lat |-> 3, averageSignal |-> -70] }

\* the routes a routing-provider answer is made of
\* a malformed geometry: a 'coordinates' list of one point
GOnePoint == << <<0, 0>> >>

ProviderRoutes ==
    { [geometry |-> GOnePoint, duration |-> Rat(1, 2)],
      [geometry |-> G1, duration |-> Rat(1, 1)],
      [geometry |-> G2, duration |-> Rat(3, 2)],
      [geometry |-> G3, duration |-> Rat(3, 1)] }

\* start and end of a request lie on the meridian 0; latitudes in cdeg
RequestLatitudes == {<<0, 0>>, <<0, 800>>, <<0, 810>>, <<810, 0>>, <<810, 800>>, <<810, 810>>}

\* the three types of the public wrappers, and one no key of the selection has
RequestedTypes == OptimizationTypes \cup {"shortest"}

Requests ==
    {[start_lat |-> p[1], start_lng |-> 0, end_lat |-> p[2], end_lng |-> 0,
      optimization_type |-> t] : p \in RequestLatitudes, t \in RequestedTypes}

\* ------------------------------------------------- _get_optimized_route
DISTANCE_LIMIT_KM == 900
TOWER_SEARCH_BUFFER == 10      \* 0.1 degree, in cdeg

\* the haversine distance in km of the request's start and end.  The model's
\* requests lie on one meridian: dlng = 0, a = sin(dlat/2)^2, c = |dlat| and
\* distance_km = 6371 * |dlat| * pi / 180, here with |dlat| in cdeg and
\* 6371 * pi / 18000 = 452341 / 406800 (pi = 355/113)
distance_km(req) == Rat(452341 * Abs(req.end_lat - req.start_lat), 406800)

\* mutant: the precheck never fails
ExceedsDistanceLimit_Never(req) == FALSE

\* distance_km > 900
ExceedsDistanceLimit(req) == RLess(RInt(DISTANCE_LIMIT_KM), distance_km(req))

DistanceLimitFailure ==
    [code |-> "DistanceLimitExceeded",
     message |-> "Route exceeds the maximum waypoint distance limit of the GraphHopper API free tier."]

\* the answer of _calculate_graphhopper_routes when Config.GRAPHHOPPER_KEY is not set
KeyMissingFailure ==
    [code |-> "Error", message |-> "Routing service configuration error: API key missing."]

\* failures _calculate_graphhopper_routes returns once the key is set
GraphhopperFailures ==
    { [code |-> "PointNotFound",
       message |-> "Could not find a valid road near the specified start or end point."],
      [code |-> "NoRoute",
       message |-> "No route found between the specified start and end points."],
      [code |-> "NoRoute", message |-> "No route found."],
      [code |-> "Error",
       message |-> "Failed to process route data received from routing service."],
      [code |-> "Error", message |-> "Routing service request timed out."] }

\* the waypoints of an answer: the snapped ones if the service gave them (here one
\* cdeg east of the request's), else the request's own
Waypoints(req, shift) ==
    << [name |-> "Origin", location |-> <<req.start_lng + shift, req.start_lat>>],
       [name |-> "Destination", location |-> <<req.end_lng + shift, req.end_lat>>] >>

\* the answers of the routing provider to a request: those of
\* _calculate_graphhopper_routes (a failure, or Ok with at least one parsed route),
\* and the answer Ok without routes of a stand-in provider
RoutingAnswers(req, key) ==
    IF key = "" THEN {KeyMissingFailure}
    ELSE GraphhopperFailures \cup
         {[code |-> "Ok", routes |-> rs, waypoints |-> Waypoints(req, shift)] :
             rs \in SeqUpTo(ProviderRoutes, MaxProviderRoutes), shift \in {0, 1}}

\* the bounding box handed to get_cell_towers
TowerSearchBox(req) ==
    [min_latitude |-> Min2(req.start_lat, req.end_lat) - TOWER_SEARCH_BUFFER,
     max_latitude |-> Max2(req.start_lat, req.end_lat) + TOWER_SEARCH_BUFFER,
     min_longitude |-> Min2(req.start_lng, req.end_lng) - TOWER_SEARCH_BUFFER,
     max_longitude |-> Max2(req.start_lng, req.end_lng) + TOWER_SEARCH_BUFFER]

InBox(tower, box) ==
    /\ tower.lat >= box.min_latitude /\ tower.lat <= box.max_latitude
    /\ tower.lon >= box.min_longitude /\ tower.lon <= box.max_longitude

\* the answers of get_cell_towers: towers of the box, read from the CSV file or mock
TowerAnswers(box) ==
    {[towers |-> ts, total |-> Len(ts), source |-> src] :
        ts \in {t \in DistinctSeqUpTo(TowerPool, MaxTowers) :
                    \A i \in 1..Len(t) : InBox(t[i], box)},
        src \in {"CSV", "mock"}}

\* mutant: a provider failure is reported as a generic error
ProviderFailure_Generic(response) ==
    [code |-> "Error", message |-> "Route calculation failed"]

\* the result when the routing provider's code is not Ok
ProviderFailure(response) == response

\* mutant: Ok without routes is reported as a service error
NoRoutesFailure_Error ==
    [code |-> "Error", message |-> "No routes found between the specified points."]

NoRoutesFailure ==
    [code |-> "NoRoute", message |-> "No routes found between the specified points."]

NoSuitableRouteFailure(optimization_type) ==
    [code |-> "NoRoute",
     message |-> <<"Could not determine any suitable route for", optimization_type>>]

\* dict.get(key): None if the key is missing
DictGet(dict, key) == IF key \in DOMAIN dict THEN dict[key] ELSE None

\* mutant: no fallback to the fastest pick
SelectedRouteInformation_NoFallback(selected, optimization_type) ==
    With(DictGet(selected, optimization_type), LAMBDA info :
        IF info = None \/ info.route = None THEN None ELSE info)

\* the pick under the requested type, the 'fastest' pick if it has no route, None
\* if that has none either
SelectedRouteInformation(selected, optimization_type) ==
    With2(DictGet(selected, optimization_type), DictGet(selected, "fastest"),
          LAMBDA selected_route_information, fastest_route_fallback :
              IF selected_route_information = None \/ selected_route_information.route = None
              THEN IF fastest_route_fallback # None /\ fastest_route_fallback.route # None
                   THEN fastest_route_fallback
                   ELSE None
              ELSE selected_route_information)

\* mutant: the response names the type of the pick that was used
ResultType_Used(selected, optimization_type) ==
    IF optimization_type \in DOMAIN selected THEN optimization_type ELSE "fastest"

ResultType(selected, optimization_type) == optimization_type

\* steps 3 and 4: the result built from the selection
FinalResult(req, waypoints, selected, tower_data_source_info) ==
    With(SelectedRouteInformation(selected, req.optimization_type), LAMBDA info :
        IF info = None THEN NoSuitableRouteFailure(req.optimization_type)
        ELSE [code |-> "Ok",
              routes |-> <<info.route>>,
              waypoints |-> waypoints,
              towers |-> info.towers,
              optimization_type |-> ResultType(selected, req.optimization_type),
              tower_data_source |-> tower_data_source_info])

\* ------------------------------------------------------------------- state
VARIABLES
    alternative_routes,     \* selector call: the candidate routes
    towers_in_area,         \* selector call: the towers
    sel_pc,                 \* selector call: "idle", "call" before, "return" after
    routes_scored,          \* selector call: routes_with_scores at the return
    selected_indices,       \* selector call: candidate index behind each key
    selection,              \* selector call: the returned dictionary
    pc,                     \* request: "idle", "start", "routing", "towers", "done"
    request,                \* request: the arguments of _get_optimized_route
    route_alternatives_response,  \* request: the routing provider's answer
    cell_towers_data,       \* request: the tower provider's answer
    result,                 \* request: the returned dictionary
    GRAPHHOPPER_KEY,        \* configuration: the routing provider's API key, "" if not set
    search_route,           \* tower search: the route coordinates passed
    search_towers,          \* tower search: the tower list passed (the caller's list)
    search_pc,              \* tower search: "idle", "call", "near" or "along" after a return
    search_result,          \* tower search: the returned list
    haversine_args,         \* haversine_distance: <<lat1, lon1, lat2, lon2>> of the call, <<>> before it
    haversine_result,       \* haversine_distance: the returned distance in metres
    utc_now,                \* datetime.utcnow(), in minutes
    routes_collection,      \* the 'routes' collection: documents _id, user_id, created_at
    save_calls,             \* save_route calls made; the next ObjectId
    save_result,            \* the last save_route call: its user and what it returned
    users_collection,       \* the 'users' collection: email -> user document
    login_calls,            \* login_user calls made
    login_result,           \* the last login_user call: its arguments and what it returned
    save_threads,           \* concurrent save_route calls: thread -> its position and locals
    login_threads,          \* concurrent login_user calls: thread -> its position and locals
    call_log                \* request: the steps taken, in order

selector_vars == <<alternative_routes, towers_in_area, sel_pc, routes_scored,
                   selected_indices, selection>>
request_vars == <<pc, request, route_alternatives_response, cell_towers_data, result,
                  call_log, GRAPHHOPPER_KEY>>
search_vars == <<search_route, search_towers, search_pc, search_result,
                 haversine_args, haversine_result>>
database_vars == <<utc_now, routes_collection, save_calls, save_result, users_collection,
                   login_calls, login_result, save_threads, login_threads>>
vars == <<alternative_routes, towers_in_area, sel_pc, routes_scored, selected_indices,
          selection, pc, request, route_alternatives_response, cell_towers_data, result,
          call_log, GRAPHHOPPER_KEY, search_route, search_towers, search_pc, search_result,
          haversine_args, haversine_result, utc_now, routes_collection, save_calls, save_result, users_collection,
          login_calls, login_result,
          save_threads, login_threads>>

\* the database is not in use
NoDatabase ==
    /\ utc_now = 0
    /\ routes_collection = {}
    /\ save_calls = 0
    /\ save_result = None
    /\ users_collection = <<>>
    /\ login_calls = 0
    /\ login_result = None
    /\ save_threads = <<>>
    /\ login_threads = <<>>

\* no tower search of its own is under way
NoSearch ==
    /\ search_route = <<>>
    /\ search_towers = <<>>
    /\ search_pc = "idle"
    /\ search_result = <<>>
    /\ haversine_args = <<>>
    /\ haversine_result = 0

\* ------------------------------------------- _select_optimized_routes alone
InitSelector ==
    /\ alternative_routes \in SeqUpTo(CandidateRoutes, MaxRoutes)
    /\ towers_in_area \in DistinctSeqUpTo(TowerPool, MaxTowers)
    /\ sel_pc = "call"
    /\ routes_scored = <<>>
    /\ selected_indices = None
    /\ selection = None
    /\ pc = "idle"
    /\ request = None
    /\ route_alternatives_response = None
    /\ cell_towers_data = None
    /\ result = None
    /\ call_log = <<>>
    /\ GRAPHHOPPER_KEY = "key"
    /\ NoSearch
    /\ NoDatabase

SelectOptimizedRoutes ==
    /\ sel_pc = "call"
    /\ sel_pc' = "return"
    /\ \E scored \in {ScoredRoutes(alternative_routes, towers_in_area)} :
         \E chosen \in {ChosenRoutes(scored)} :
            /\ routes_scored' = scored
            /\ selected_indices' = SelectedIndices(chosen)
            /\ selection' = SelectionReturned(chosen)
    /\ UNCHANGED <<alternative_routes, towers_in_area>>
    /\ UNCHANGED request_vars
    /\ UNCHANGED search_vars
    /\ UNCHANGED database_vars

NextSelector == SelectOptimizedRoutes

SpecSelector == InitSelector /\ [][NextSelector]_vars

\* ---------------------------------------------- one _get_optimized_route
Init ==
    /\ request \in Requests
    /\ pc = "start"
    /\ route_alternatives_response = None
    /\ cell_towers_data = None
    /\ result = None
    /\ call_log = <<>>
    /\ GRAPHHOPPER_KEY \in {"", "key"}
    /\ NoSearch
    /\ NoDatabase
    /\ alternative_routes = <<>>
    /\ towers_in_area = <<>>
    /\ sel_pc = "idle"
    /\ routes_scored = <<>>
    /\ selected_indices = None
    /\ selection = None

\* the distance precheck
DistancePrecheck ==
    /\ pc = "start"
    /\ call_log' = Append(call_log, "precheck")
    /\ IF ExceedsDistanceLimit(request)
       THEN /\ result' = DistanceLimitFailure
            /\ pc' = "done"
       ELSE /\ pc' = "routing"
            /\ UNCHANGED result
    /\ UNCHANGED <<request, route_alternatives_response, cell_towers_data, GRAPHHOPPER_KEY>>
    /\ UNCHANGED selector_vars
    /\ UNCHANGED search_vars
    /\ UNCHANGED database_vars

\* mutant: an Ok answer without routes goes on to the tower provider
StepAfterRouting_NoEmptyCheck(response) ==
    IF response.code # "Ok" THEN "done" ELSE "towers"

\* where the request goes after the routing provider's answer: it returns on a
\* failure and on an answer without routes, else it calls the tower provider
StepAfterRouting(response) ==
    IF response.code # "Ok" THEN "done"
    ELSE IF Len(response.routes) = 0 THEN "done"
    ELSE "towers"

\* _calculate_graphhopper_routes is called and answers; its answer is examined
RoutingProviderReturns ==
    /\ pc = "routing"
    /\ \E response \in RoutingAnswers(request, GRAPHHOPPER_KEY) :
          /\ route_alternatives_response' = response
          /\ pc' = StepAfterRouting(response)
          /\ IF response.code # "Ok"
             THEN result' = ProviderFailure(response)
             ELSE IF Len(response.routes) = 0
             THEN result' = NoRoutesFailure
             ELSE UNCHANGED result
    /\ call_log' = Append(call_log, "routing")
    /\ UNCHANGED <<request, cell_towers_data, GRAPHHOPPER_KEY>>
    /\ UNCHANGED selector_vars
    /\ UNCHANGED search_vars
    /\ UNCHANGED database_vars

\* get_cell_towers is called and answers; the selection runs and the result is built
TowerProviderReturns ==
    /\ pc = "towers"
    /\ \E data \in TowerAnswers(TowerSearchBox(request)) :
       \E scored \in {ScoredRoutes(route_alternatives_response.routes, data.towers)} :
       \E chosen \in {ChosenRoutes(scored)} :
       \E selected \in {SelectionReturned(chosen)} :
          /\ cell_towers_data' = data
          /\ alternative_routes' = route_alternatives_response.routes
          /\ towers_in_area' = data.towers
          /\ routes_scored' = scored
          /\ selected_indices' = SelectedIndices(chosen)
          /\ selection' = selected
          /\ result' = FinalResult(request, route_alternatives_response.waypoints,
                                   selected, data.source)
    /\ sel_pc' = "return"
    /\ pc' = "done"
    /\ call_log' = call_log \o <<"towers", "select">>
    /\ UNCHANGED <<request, route_alternatives_response, GRAPHHOPPER_KEY>>
    /\ UNCHANGED search_vars
    /\ UNCHANGED database_vars

Next == DistancePrecheck \/ RoutingProviderReturns \/ TowerProviderReturns

Spec == Init /\ [][Next]_vars

\* ------------------- steps 3 and 4 of _get_optimized_route on any selection
\* picks of a selection result: without a route, with a route and no towers,
\* with a route and a tower
SelectionPicks ==
    {NoRoutePick} \cup
    {[route |-> s.route, towers |-> s.towers] :
        s \in {ScoreRoute([geometry |-> G1, duration |-> Rat(1, 1)], 0,
                          << [id |-> 2, lon |-> 0, lat |-> 3, averageSignal |-> -90] >>),
               ScoreRoute([geometry |-> G2, duration |-> Rat(3, 2)], 1,
                          << [id |-> 2, lon |-> 0, lat |-> 3, averageSignal |-> -90] >>)}}

\* selection results: any of the keys may be missing
SelectionResults == UNION {[K -> SelectionPicks] : K \in SUBSET OptimizationTypes}

InitLookup ==
    /\ request \in {r \in Requests : r.start_lat = 0 /\ r.end_lat = 0}
    /\ pc = "select"
    /\ route_alternatives_response \in
          {[code |-> "Ok",
            routes |-> << [geometry |-> G1, duration |-> Rat(1, 1)],
                          [geometry |-> G2, duration |-> Rat(3, 2)] >>,
            waypoints |-> Waypoints(request, shift)] : shift \in {0, 1}}
    /\ cell_towers_data =
          [towers |-> << [id |-> 2, lon |-> 0, lat |-> 3, averageSignal |-> -90] >>,
           total |-> 1, source |-> "CSV"]
    /\ selection \in SelectionResults
    /\ result = None
    /\ GRAPHHOPPER_KEY = "key"
    /\ NoSearch
    /\ NoDatabase
    /\ call_log = <<"precheck", "routing", "towers", "select">>
    /\ alternative_routes = route_alternatives_response.routes
    /\ towers_in_area = cell_towers_data.towers
    /\ sel_pc = "return"
    /\ routes_scored = <<>>
    /\ selected_indices = None

\* the lookup of the requested type in the selection, and the result built from it
LookUpSelection ==
    /\ pc = "select"
    /\ result' = FinalResult(request, route_alternatives_response.waypoints, selection,
                             cell_towers_data.source)
    /\ pc' = "done"
    /\ UNCHANGED <<request, route_alternatives_response, cell_towers_data, call_log,
                   GRAPHHOPPER_KEY>>
    /\ UNCHANGED selector_vars
    /\ UNCHANGED search_vars
    /\ UNCHANGED database_vars

NextLookup == LookUpSelection

SpecLookup == InitLookup /\ [][NextLookup]_vars

\* ------------------------------------------------- the tower searches alone
\* a polyline and towers near 60 N, where a cdeg of longitude is half a cdeg of latitude
\* a polyline of planar length 0: the same point twice
GZeroLength == << <<1, 2>>, <<1, 2>> >>

GNorth == << <<0, 6000>>, <<0, 6004>> >>

NorthTowers ==
    { [id |-> 5, lon |-> 4, lat |-> 6002, averageSignal |-> -80],
      [id |-> 6, lon |-> 2, lat |-> 6001, averageSignal |-> -100] }

\* tower records the search cannot use: without 'lat', with a 'lat' that is no
\* number, and no mapping at all
MalformedTowers ==
    { [id |-> 7, lon |-> 2, averageSignal |-> -70],
      [id |-> 8, lon |-> 2, lat |-> NotANumber, averageSignal |-> -70],
      None }

\* the calls: a route and a tower list of its region, malformed records among them
SearchCalls ==
    {[route |-> r, towers |-> ts] :
        r \in {<<>>, GOnePoint, GZeroLength, G1, G2, G3},
        ts \in DistinctSeqUpTo(TowerPool \cup MalformedTowers, MaxTowers)}
    \cup
    {[route |-> r, towers |-> ts] :
        r \in {GNorth},
        ts \in DistinctSeqUpTo(NorthTowers \cup MalformedTowers, MaxTowers)}

InitSearch ==
    /\ \E call \in SearchCalls :
          /\ search_route = call.route
          /\ search_towers = call.towers
    /\ search_pc = "call"
    /\ search_result = <<>>
    /\ haversine_args = <<>>
    /\ haversine_result = 0
    /\ alternative_routes = <<>>
    /\ towers_in_area = <<>>
    /\ sel_pc = "idle"
    /\ routes_scored = <<>>
    /\ selected_indices = None
    /\ selection = None
    /\ pc = "idle"
    /\ request = None
    /\ route_alternatives_response = None
    /\ cell_towers_data = None
    /\ result = None
    /\ call_log = <<>>
    /\ GRAPHHOPPER_KEY = "key"
    /\ NoDatabase

\* find_towers_near_route_shapely(search_route, search_towers, 2500) is called and returns
FindTowersNearRoute ==
    /\ search_pc = "call"
    /\ search_result' = find_towers_near_route_shapely(search_route, search_towers,
                                                       TOWER_PROXIMITY_METERS)
    /\ search_towers' = InputAfterSearch(search_route, search_towers, TOWER_PROXIMITY_METERS)
    /\ search_pc' = "near"
    /\ UNCHANGED <<search_route, haversine_args, haversine_result>>
    /\ UNCHANGED selector_vars
    /\ UNCHANGED request_vars
    /\ UNCHANGED database_vars

\* find_towers_along_route(search_route, search_towers, 2500) is called and returns
FindTowersAlongRoute ==
    /\ search_pc = "call"
    /\ search_result' = find_towers_along_route(search_route, search_towers,
                                                TOWER_PROXIMITY_METERS)
    /\ search_towers' = InputAfterSearch(search_route, search_towers, TOWER_PROXIMITY_METERS)
    /\ search_pc' = "along"
    /\ UNCHANGED <<search_route, haversine_args, haversine_result>>
    /\ UNCHANGED selector_vars
    /\ UNCHANGED request_vars
    /\ UNCHANGED database_vars

\* the coordinates haversine_distance is called with, in 1/100 degree
HaversineCoordinates == {NotANumber, 0, 2}

\* haversine_distance(lat1, lon1, lat2, lon2) is called and returns
HaversineDistance ==
    /\ haversine_args = <<>>
    /\ \E lat1 \in HaversineCoordinates, lon1 \in HaversineCoordinates,
          lat2 \in HaversineCoordinates, lon2 \in HaversineCoordinates :
          /\ haversine_args' = <<lat1, lon1, lat2, lon2>>
          /\ haversine_result' = haversine_distance(lat1, lon1, lat2, lon2)
    /\ UNCHANGED <<search_route, search_towers, search_pc, search_result>>
    /\ UNCHANGED selector_vars
    /\ UNCHANGED request_vars
    /\ UNCHANGED database_vars

NextSearch == FindTowersNearRoute \/ FindTowersAlongRoute \/ HaversineDistance

SpecSearch == InitSearch /\ [][NextSearch]_vars

\* ------------------------------------------------------- models/route.py
MAX_SAVED_ROUTES == 3

UserIds == {"u1", "u2"}

\* the documents of a user in the collection
RoutesOf(collection, user_id) == {r \in collection : r.user_id = user_id}

\* find(sort created_at ascending, limit n): the n oldest documents, in any order
\* the database gives documents of one created_at
OldestRoutes(documents, n) ==
    {D \in SUBSET documents :
        /\ Cardinality(D) = Min2(n, Cardinality(documents))
        /\ \A d \in D : \A q \in documents \ D : d.created_at <= q.created_at}

\* mutant: the newest documents are deleted
RoutesToDelete_Newest(collection, user_id) ==
    With(RoutesOf(collection, user_id), LAMBDA documents :
        IF Cardinality(documents) >= MAX_SAVED_ROUTES
        THEN {D \in SUBSET documents :
                 /\ Cardinality(D) = Cardinality(documents) - MAX_SAVED_ROUTES + 1
                 /\ \A d \in D : \A q \in documents \ D : d.created_at >= q.created_at}
        ELSE {{}})

\* the sets of documents save_route may delete for a user (ids_to_delete)
RoutesToDelete(collection, user_id) ==
    With(RoutesOf(collection, user_id), LAMBDA documents :
        IF Cardinality(documents) >= MAX_SAVED_ROUTES
        THEN OldestRoutes(documents, Cardinality(documents) - MAX_SAVED_ROUTES + 1)
        ELSE {{}})

NewRoute(id, user_id, now) == [id |-> id, user_id |-> user_id, created_at |-> now]

InitRoutes ==
    /\ utc_now = 0
    /\ routes_collection = {}
    /\ save_calls = 0
    /\ save_result = None
    /\ users_collection = <<>>
    /\ login_calls = 0
    /\ login_result = None
    /\ save_threads = <<>>
    /\ login_threads = <<>>
    /\ NoSearch
    /\ alternative_routes = <<>>
    /\ towers_in_area = <<>>
    /\ sel_pc = "idle"
    /\ routes_scored = <<>>
    /\ selected_indices = None
    /\ selection = None
    /\ pc = "idle"
    /\ request = None
    /\ route_alternatives_response = None
    /\ cell_towers_data = None
    /\ result = None
    /\ call_log = <<>>
    /\ GRAPHHOPPER_KEY = "key"

\* a minute passes between two calls
MinutePasses ==
    /\ utc_now < MaxSaveClock
    /\ utc_now' = utc_now + 1
    /\ UNCHANGED <<routes_collection, save_calls, save_result, users_collection,
                   login_calls, login_result>>
    /\ UNCHANGED <<save_threads, login_threads>>
    /\ UNCHANGED selector_vars
    /\ UNCHANGED request_vars
    /\ UNCHANGED search_vars

\* save_route(user_id, ...) runs and returns the new route's id
SaveRoute ==
    /\ save_calls < MaxSaves
    /\ \E user_id \in UserIds :
       \E ids_to_delete \in RoutesToDelete(routes_collection, user_id) :
          /\ routes_collection' =
                (routes_collection \ ids_to_delete)
                    \cup {NewRoute(save_calls + 1, user_id, utc_now)}
          /\ save_result' = [user_id |-> user_id, new_route_id |-> <<save_calls + 1>>,
                              ids_to_delete |-> ids_to_delete]
    /\ save_calls' = save_calls + 1
    /\ UNCHANGED <<utc_now, users_collection, login_calls, login_result>>
    /\ UNCHANGED <<save_threads, login_threads>>
    /\ UNCHANGED selector_vars
    /\ UNCHANGED request_vars
    /\ UNCHANGED search_vars

\* save_route(user_id, ...) meets a database error, at the count or at the insert,
\* and returns (None, error message)
SaveRouteFails ==
    /\ save_calls < MaxSaves
    /\ \E user_id \in UserIds :
          /\ \E ids_to_delete \in {{}} \cup RoutesToDelete(routes_collection, user_id) :
                /\ routes_collection' = routes_collection \ ids_to_delete
                /\ save_result' = [user_id |-> user_id, new_route_id |-> <<>>,
                                    ids_to_delete |-> ids_to_delete]
    /\ save_calls' = save_calls + 1
    /\ UNCHANGED <<utc_now, users_collection, login_calls, login_result>>
    /\ UNCHANGED <<save_threads, login_threads>>
    /\ UNCHANGED selector_vars
    /\ UNCHANGED request_vars
    /\ UNCHANGED search_vars

NextRoutes == SaveRoute \/ SaveRouteFails \/ MinutePasses

SpecRoutes == InitRoutes /\ [][NextRoutes]_vars

\* ------------------------------------------- save_route, concurrent calls
\* the threads of the server that run save_route, and the user they save for
Threads == 1..MaxThreads
ConcurrentUser == "u1"

\* a thread outside save_route
IdleSaver == [pc |-> "idle", current_route_count |-> 0, ids_to_delete |-> {}]

InitRoutesConcurrent ==
    /\ utc_now = 0
    /\ routes_collection = {}
    /\ save_calls = 0
    /\ save_result = None
    /\ users_collection = <<>>
    /\ login_calls = 0
    /\ login_result = None
    /\ save_threads = [t \in Threads |-> IdleSaver]
    /\ login_threads = <<>>
    /\ NoSearch
    /\ alternative_routes = <<>>
    /\ towers_in_area = <<>>
    /\ sel_pc = "idle"
    /\ routes_scored = <<>>
    /\ selected_indices = None
    /\ selection = None
    /\ pc = "idle"
    /\ request = None
    /\ route_alternatives_response = None
    /\ cell_towers_data = None
    /\ result = None
    /\ call_log = <<>>
    /\ GRAPHHOPPER_KEY = "key"

\* the calls of save_route under way
SavesUnderWay == Cardinality({t \in Threads : save_threads[t].pc # "idle"})

\* a thread enters save_route: count_documents
SaveRouteCounts(t) ==
    /\ save_threads[t].pc = "idle"
    /\ save_calls + SavesUnderWay < MaxSaves
    /\ \E count \in {Cardinality(RoutesOf(routes_collection, ConcurrentUser))} :
          save_threads' = [save_threads EXCEPT ![t] =
              [pc |-> IF count >= MAX_SAVED_ROUTES THEN "find" ELSE "insert",
               current_route_count |-> count,
               ids_to_delete |-> {}]]
    /\ UNCHANGED <<utc_now, routes_collection, save_calls, save_result, users_collection,
                   login_calls, login_result, login_threads>>
    /\ UNCHANGED selector_vars
    /\ UNCHANGED request_vars
    /\ UNCHANGED search_vars

\* find(sort created_at ascending, limit num_routes_to_delete)
SaveRouteFindsOldest(t) ==
    /\ save_threads[t].pc = "find"
    /\ \E ids \in OldestRoutes(RoutesOf(routes_collection, ConcurrentUser),
                               save_threads[t].current_route_count - MAX_SAVED_ROUTES + 1) :
          save_threads' = [save_threads EXCEPT ![t].ids_to_delete = ids,
                                               ![t].pc = IF ids # {} THEN "delete"
                                                         ELSE "insert"]
    /\ UNCHANGED <<utc_now, routes_collection, save_calls, save_result, users_collection,
                   login_calls, login_result, login_threads>>
    /\ UNCHANGED selector_vars
    /\ UNCHANGED request_vars
    /\ UNCHANGED search_vars

\* delete_many({"_id": {"$in": ids_to_delete}})
SaveRouteDeletes(t) ==
    /\ save_threads[t].pc = "delete"
    /\ routes_collection' = routes_collection \ save_threads[t].ids_to_delete
    /\ save_threads' = [save_threads EXCEPT ![t].pc = "insert"]
    /\ UNCHANGED <<utc_now, save_calls, save_result, users_collection,
                   login_calls, login_result, login_threads>>
    /\ UNCHANGED selector_vars
    /\ UNCHANGED request_vars
    /\ UNCHANGED search_vars

\* insert_one(new_route), and the call returns the new id
SaveRouteInserts(t) ==
    /\ save_threads[t].pc = "insert"
    /\ routes_collection' =
          routes_collection \cup {NewRoute(save_calls + 1, ConcurrentUser, utc_now)}
    /\ save_result' = [user_id |-> ConcurrentUser, new_route_id |-> <<save_calls + 1>>,
                        ids_to_delete |-> save_threads[t].ids_to_delete]
    /\ save_calls' = save_calls + 1
    /\ save_threads' = [save_threads EXCEPT ![t] = IdleSaver]
    /\ UNCHANGED <<utc_now, users_collection, login_calls, login_result, login_threads>>
    /\ UNCHANGED selector_vars
    /\ UNCHANGED request_vars
    /\ UNCHANGED search_vars

NextRoutesConcurrent ==
    \/ \E t \in Threads : SaveRouteCounts(t)
    \/ \E t \in Threads : SaveRouteFindsOldest(t)
    \/ \E t \in Threads : SaveRouteDeletes(t)
    \/ \E t \in Threads : SaveRouteInserts(t)
    \/ MinutePasses

SpecRoutesConcurrent == InitRoutesConcurrent /\ [][NextRoutesConcurrent]_vars

\* ------------------------------- find_towers_along_route, the size cap
\* a long route along the equator, and n towers on it, one per 1/100 degree
GLong == << <<0, 0>>, <<240, 0>> >>
ManyTowers(n) ==
    [i \in 1..n |-> [id |-> 100 + i, lon |-> i - 1, lat |-> 0, averageSignal |-> -80]] \o <<>>

\* what the proximity search returns for GLong and ManyTowers(n): the copies in
\* the order of their positions, each at distance 0
ManyNearbyTowers(n) ==
    [i \in 1..n |-> TowerCopy(ManyTowers(n)[i], 0, Rat(i - 1, 240))] \o <<>>

\* find_towers_along_route has the result of the proximity search
InitSampling ==
    /\ \E n \in 1..MaxNearbyTowers :
          /\ search_towers = ManyTowers(n)
          /\ search_result = ManyNearbyTowers(n)
    /\ search_route = GLong
    /\ search_pc = "nearby"
    /\ haversine_args = <<>>
    /\ haversine_result = 0
    /\ alternative_routes = <<>>
    /\ towers_in_area = <<>>
    /\ sel_pc = "idle"
    /\ routes_scored = <<>>
    /\ selected_indices = None
    /\ selection = None
    /\ pc = "idle"
    /\ request = None
    /\ route_alternatives_response = None
    /\ cell_towers_data = None
    /\ result = None
    /\ call_log = <<>>
    /\ GRAPHHOPPER_KEY = "key"
    /\ NoDatabase

\* find_towers_along_route caps the list and returns
SampleNearbyTowers ==
    /\ search_pc = "nearby"
    /\ search_result' = SampleTowers(search_result)
    /\ search_pc' = "sampled"
    /\ UNCHANGED <<search_route, search_towers, haversine_args, haversine_result>>
    /\ UNCHANGED selector_vars
    /\ UNCHANGED request_vars
    /\ UNCHANGED database_vars

NextSampling == SampleNearbyTowers

SpecSampling == InitSampling /\ [][NextSampling]_vars

\* -------------------------------------------------------- models/user.py
MAX_LOGIN_ATTEMPTS == 7
LOCKOUT_DURATION_MINUTES == 15

\* the registered account, and an email no account has
RegisteredEmail == "a@example.org"
Emails == {RegisteredEmail, "b@example.org"}

\* the account's password, a wrong one, and none
Passwords == {"secret", "guess", ""}

\* an optional datetime: <<>> is None, <<t>> the time t
NoTime == <<>>

\* the document register_user inserts
NewUser(password, now) ==
    [password |-> password,
     last_login |-> <<now>>,
     failed_login_attempts |-> 0,
     lockout_until |-> NoTime]

\* mutant: a lockout is never in force
is_user_locked_out_Never(user, now) == FALSE

is_user_locked_out(user, now) ==
    /\ user # None
    /\ user.lockout_until # NoTime
    /\ user.lockout_until[1] > now

\* users_collection.find_one({"email": email})
FindUser(collection, email) == IF email \in DOMAIN collection THEN collection[email] ELSE None

\* the document after a successful login
AfterSuccess(user, now) ==
    [user EXCEPT !.last_login = <<now>>, !.failed_login_attempts = 0, !.lockout_until = NoTime]

\* the document after a failed login
AfterFailure(user, now) ==
    IF user.failed_login_attempts + 1 >= MAX_LOGIN_ATTEMPTS
    THEN [user EXCEPT !.failed_login_attempts = @ + 1,
                      !.lockout_until = <<now + LOCKOUT_DURATION_MINUTES>>]
    ELSE [user EXCEPT !.failed_login_attempts = @ + 1]

RequiredMessage == "Email and password are required."
InvalidMessage == "Invalid email or password."
LockedMessage == "Account locked due to too many failed attempts. Please try again later."
ServerErrorMessage == "Login failed due to a server error."

\* what a login_user call returned: user_info (here its email) or an error message
LoginReturn(email, password, ok, message) ==
    [email |-> email, password |-> password, ok |-> ok, message |-> message]

InitLogin ==
    /\ utc_now = 0
    /\ users_collection = [e \in {RegisteredEmail} |-> NewUser("secret", 0)]
    /\ login_calls = 0
    /\ login_result = None
    /\ save_threads = <<>>
    /\ login_threads = <<>>
    /\ routes_collection = {}
    /\ save_calls = 0
    /\ save_result = None
    /\ NoSearch
    /\ alternative_routes = <<>>
    /\ towers_in_area = <<>>
    /\ sel_pc = "idle"
    /\ routes_scored = <<>>
    /\ selected_indices = None
    /\ selection = None
    /\ pc = "idle"
    /\ request = None
    /\ route_alternatives_response = None
    /\ cell_towers_data = None
    /\ result = None
    /\ call_log = <<>>
    /\ GRAPHHOPPER_KEY = "key"

\* time passes between two calls
ClockAdvances ==
    /\ \E minutes \in {1, LOCKOUT_DURATION_MINUTES - 1} :
          /\ utc_now + minutes <= MaxClock
          /\ utc_now' = utc_now + minutes
    /\ UNCHANGED <<routes_collection, save_calls, save_result, users_collection,
                   login_calls, login_result>>
    /\ UNCHANGED <<save_threads, login_threads>>
    /\ UNCHANGED selector_vars
    /\ UNCHANGED request_vars
    /\ UNCHANGED search_vars

\* login_user(email, password) runs and returns
LoginUser ==
    /\ login_calls < MaxLogins
    /\ login_calls' = login_calls + 1
    /\ \E email \in Emails, password \in Passwords :
       \E user \in {FindUser(users_collection, email)} :
          IF password = ""
          THEN /\ login_result' = LoginReturn(email, password, FALSE, RequiredMessage)
               /\ UNCHANGED users_collection
          ELSE IF user = None
          THEN /\ login_result' = LoginReturn(email, password, FALSE, InvalidMessage)
               /\ UNCHANGED users_collection
          ELSE IF is_user_locked_out(user, utc_now)
          THEN /\ login_result' = LoginReturn(email, password, FALSE, LockedMessage)
               /\ UNCHANGED users_collection
          ELSE IF password = user.password
          THEN /\ users_collection' =
                     [users_collection EXCEPT ![email] = AfterSuccess(user, utc_now)]
               /\ login_result' = LoginReturn(email, password, TRUE, "")
          ELSE /\ users_collection' =
                     [users_collection EXCEPT ![email] = AfterFailure(user, utc_now)]
               /\ login_result' = LoginReturn(email, password, FALSE, InvalidMessage)
    /\ UNCHANGED <<utc_now, routes_collection, save_calls, save_result>>
    /\ UNCHANGED <<save_threads, login_threads>>
    /\ UNCHANGED selector_vars
    /\ UNCHANGED request_vars
    /\ UNCHANGED search_vars

\* login_user meets an error while it checks the password or updates the document
LoginUserFails ==
    /\ login_calls < MaxLogins
    /\ login_calls' = login_calls + 1
    /\ \E email \in DOMAIN users_collection, password \in Passwords \ {""} :
          /\ ~is_user_locked_out(users_collection[email], utc_now)
          /\ login_result' = LoginReturn(email, password, FALSE, ServerErrorMessage)
    /\ UNCHANGED <<utc_now, routes_collection, save_calls, save_result, users_collection>>
    /\ UNCHANGED <<save_threads, login_threads>>
    /\ UNCHANGED selector_vars
    /\ UNCHANGED request_vars
    /\ UNCHANGED search_vars

NextLogin == LoginUser \/ LoginUserFails \/ ClockAdvances

SpecLogin == InitLogin /\ [][NextLogin]_vars

\* ------------------------------------------- login_user, concurrent calls
\* a thread outside login_user
IdleLogin == [pc |-> "idle", password |-> "", user |-> None]

InitLoginConcurrent ==
    /\ utc_now = 0
    /\ users_collection = [e \in {RegisteredEmail} |-> NewUser("secret", 0)]
    /\ login_calls = 0
    /\ login_result = None
    /\ routes_collection = {}
    /\ save_calls = 0
    /\ save_result = None
    /\ save_threads = <<>>
    /\ login_threads = [t \in Threads |-> IdleLogin]
    /\ NoSearch
    /\ alternative_routes = <<>>
    /\ towers_in_area = <<>>
    /\ sel_pc = "idle"
    /\ routes_scored = <<>>
    /\ selected_indices = None
    /\ selection = None
    /\ pc = "idle"
    /\ request = None
    /\ route_alternatives_response = None
    /\ cell_towers_data = None
    /\ result = None
    /\ call_log = <<>>
    /\ GRAPHHOPPER_KEY = "key"

\* the calls of login_user under way
LoginsUnderWay == Cardinality({t \in Threads : login_threads[t].pc # "idle"})

\* a thread enters login_user for the registered account with a password:
\* find_one reads the document; a locked account returns at once
LoginUserReads(t) ==
    /\ login_threads[t].pc = "idle"
    /\ login_calls + LoginsUnderWay < MaxConcurrentLogins
    /\ \E password \in Passwords \ {""} :
       \E user \in {FindUser(users_collection, RegisteredEmail)} :
          IF is_user_locked_out(user, utc_now)
          THEN /\ login_result' = LoginReturn(RegisteredEmail, password, FALSE, LockedMessage)
               /\ login_calls' = login_calls + 1
               /\ UNCHANGED login_threads
          ELSE /\ login_threads' = [login_threads EXCEPT ![t] =
                      [pc |-> "update", password |-> password, user |-> user]]
               /\ UNCHANGED <<login_calls, login_result>>
    /\ UNCHANGED <<utc_now, routes_collection, save_calls, save_result, users_collection,
                   save_threads>>
    /\ UNCHANGED selector_vars
    /\ UNCHANGED request_vars
    /\ UNCHANGED search_vars

\* the update a failed login sends: $inc on the stored counter, and $set of
\* lockout_until if the counter the thread read, plus one, reaches the limit
FailureUpdate(stored, read, now) ==
    IF read.failed_login_attempts + 1 >= MAX_LOGIN_ATTEMPTS
    THEN [stored EXCEPT !.failed_login_attempts = @ + 1,
                        !.lockout_until = <<now + LOCKOUT_DURATION_MINUTES>>]
    ELSE [stored EXCEPT !.failed_login_attempts = @ + 1]

\* the password is checked against the document read, update_one is sent and
\* the call returns
LoginUserUpdates(t) ==
    /\ login_threads[t].pc = "update"
    /\ IF login_threads[t].password = login_threads[t].user.password
       THEN /\ users_collection' = [users_collection EXCEPT ![RegisteredEmail] =
                   AfterSuccess(@, utc_now)]
            /\ login_result' = LoginReturn(RegisteredEmail, login_threads[t].password,
                                           TRUE, "")
       ELSE /\ users_collection' = [users_collection EXCEPT ![RegisteredEmail] =
                   FailureUpdate(@, login_threads[t].user, utc_now)]
            /\ login_result' = LoginReturn(RegisteredEmail, login_threads[t].password,
                                           FALSE, InvalidMessage)
    /\ login_calls' = login_calls + 1
    /\ login_threads' = [login_threads EXCEPT ![t] = IdleLogin]
    /\ UNCHANGED <<utc_now, routes_collection, save_calls, save_result, save_threads>>
    /\ UNCHANGED selector_vars
    /\ UNCHANGED request_vars
    /\ UNCHANGED search_vars

NextLoginConcurrent ==
    \/ \E t \in Threads : LoginUserReads(t)
    \/ \E t \in Threads : LoginUserUpdates(t)
    \/ ClockAdvances

SpecLoginConcurrent == InitLoginConcurrent /\ [][NextLoginConcurrent]_vars

\* ------------------------------------------------------------------ claims
NumCandidates == Len(alternative_routes)
Returned == sel_pc = "return"
PickedSet == {selected_indices[k] : k \in OptimizationTypes}

\* C1: for a non-empty list of N candidates the three picks are candidate indices
\* and cover exactly min(3, N) distinct ones; 'cell_coverage' differs from 'fastest'
\* whenever N >= 2
Thm_C1 ==
    (Returned /\ NumCandidates >= 1) =>
        /\ PickedSet \subseteq 0..(NumCandidates - 1)
        /\ Cardinality(PickedSet) = Min2(3, NumCandidates)
        /\ (NumCandidates >= 2 => selected_indices["cell_coverage"] # selected_indices["fastest"])

\* C1 witness: three candidates of which the fastest is also the best-signal one,
\* and the three picks are pairwise distinct
Wit_C1 ==
    /\ Returned
    /\ NumCandidates = 3
    /\ routes_sorted_by_signal(routes_scored)[1].index = selected_indices["fastest"]
    /\ routes_sorted_by_balanced(routes_scored)[1].index = selected_indices["fastest"]
    /\ Cardinality(PickedSet) = 3

\* C2: the 'fastest' pick has the minimum duration and, among the candidates tied
\* on it, the lowest index; the returned 'fastest' route is that candidate
Thm_C2 ==
    (Returned /\ NumCandidates >= 1) =>
        LET f == selected_indices["fastest"] + 1
        IN /\ f \in 1..NumCandidates
           /\ \A j \in 1..NumCandidates :
                 /\ RLeq(alternative_routes[f].duration, alternative_routes[j].duration)
                 /\ (REq(alternative_routes[f].duration, alternative_routes[j].duration)
                        => f <= j)
           /\ selection["fastest"].route = alternative_routes[f]

\* C2 witness: the minimum duration is shared by two candidates, none of them the
\* first of the list
Wit_C2 ==
    /\ Returned
    /\ selected_indices # None
    /\ selected_indices["fastest"] >= 1
    /\ \E j \in 1..NumCandidates :
          /\ j > selected_indices["fastest"] + 1
          /\ REq(alternative_routes[j].duration,
                 alternative_routes[selected_indices["fastest"] + 1].duration)

\* C3 as claimed: no candidate has a strictly higher avg_signal than the
\* 'cell_coverage' pick
Orig_C3 ==
    (Returned /\ NumCandidates >= 1) =>
        \A j \in 1..NumCandidates :
            ~RLess(routes_scored[selected_indices["cell_coverage"] + 1].avg_signal,
                   routes_scored[j].avg_signal)

\* C3 amended: no candidate other than the 'fastest' pick has a strictly higher
\* avg_signal than the 'cell_coverage' pick
Thm_C3 ==
    (Returned /\ NumCandidates >= 1) =>
        \A j \in 1..NumCandidates :
            (j - 1 # selected_indices["fastest"]) =>
                ~RLess(routes_scored[selected_indices["cell_coverage"] + 1].avg_signal,
                       routes_scored[j].avg_signal)

\* C3 witness: the fastest candidate has the strictly best signal of three, and
\* 'cell_coverage' went to the better of the other two
Wit_C3 ==
    /\ Returned
    /\ NumCandidates = 3
    /\ \A j \in 1..NumCandidates :
          (j - 1 # selected_indices["fastest"]) =>
              RLess(routes_scored[j].avg_signal,
                    routes_scored[selected_indices["fastest"] + 1].avg_signal)
    /\ \E j \in 1..NumCandidates :
          RLess(routes_scored[j].avg_signal,
                routes_scored[selected_indices["cell_coverage"] + 1].avg_signal)

\* C4: called with no candidate the selector returns exactly the three keys, each
\* with route None and no towers, whatever the towers are
Thm_C4 ==
    (Returned /\ NumCandidates = 0) =>
        /\ DOMAIN selection = OptimizationTypes
        /\ \A k \in OptimizationTypes :
              /\ DOMAIN selection[k] = {"route", "towers"}
              /\ selection[k].route = None
              /\ selection[k].towers = <<>>

\* C4 witness: a call without candidates but with towers has returned
Wit_C4 == Returned /\ NumCandidates = 0 /\ Len(towers_in_area) > 0

\* the request's start and end are more than 900 km apart: on one meridian the
\* great-circle distance is 6371 km * |dlat| * pi / 180 (|dlat| in cdeg here, pi = 355/113)
FarApart == Abs(request.end_lat - request.start_lat) * 6371 * 355 > 900 * 18000 * 113

\* C6: a request whose start and end are more than 900 km apart ends, right after
\* the precheck, with the failure DistanceLimitExceeded, and neither the routing
\* provider nor the tower provider is ever called for it; a request at most 900 km
\* apart passes the precheck and never gets that failure
Thm_C6 ==
    /\ (FarApart /\ pc # "start") =>
          /\ pc = "done"
          /\ result.code = "DistanceLimitExceeded"
          /\ call_log = <<"precheck">>
          /\ route_alternatives_response = None
          /\ cell_towers_data = None
    /\ (~FarApart /\ pc # "start") =>
          /\ pc = "done" => (Len(call_log) >= 2 /\ call_log[2] = "routing"
                                /\ result.code # "DistanceLimitExceeded")
          /\ pc # "done" => result = None

\* C6 witness: a request 810 cdeg (900.7 km) apart has failed on the precheck
Wit_C6 ==
    /\ pc = "done"
    /\ FarApart
    /\ Abs(request.end_lat - request.start_lat) = 810
    /\ result = DistanceLimitFailure

\* the routing provider has answered with a failure
ProviderFailed ==
    /\ pc = "done"
    /\ route_alternatives_response # None
    /\ route_alternatives_response.code # "Ok"

\* C7: when the routing provider answers with a status other than Ok, the result
\* is the provider's answer itself, kind and message unchanged, and the tower
\* provider is not asked
Thm_C7 ==
    ProviderFailed =>
        /\ result = route_alternatives_response
        /\ result.code = route_alternatives_response.code
        /\ result.message = route_alternatives_response.message
        /\ cell_towers_data = None

\* C7 witness: PointNotFound has been passed on for a 'cell_coverage' request
Wit_C7 ==
    /\ ProviderFailed
    /\ request.optimization_type = "cell_coverage"
    /\ route_alternatives_response.code = "PointNotFound"
    /\ result.code = "PointNotFound"

\* the routing provider has answered Ok without a route
ProviderGaveNoRoutes ==
    /\ pc = "done"
    /\ route_alternatives_response # None
    /\ route_alternatives_response.code = "Ok"
    /\ Len(route_alternatives_response.routes) = 0

\* C8: when the routing provider answers Ok with zero routes the result is a
\* failure of kind NoRoute, and the tower provider is not asked
Thm_C8 ==
    ProviderGaveNoRoutes =>
        /\ result.code = "NoRoute"
        /\ "routes" \notin DOMAIN result
        /\ cell_towers_data = None

\* C8 witness: Ok without routes has been answered to a 'balanced' request
Wit_C8 ==
    /\ ProviderGaveNoRoutes
    /\ request.optimization_type = "balanced"
    /\ result = NoRoutesFailure

\* the selection holds a route under key k
HasRoute(k) == k \in DOMAIN selection /\ selection[k].route # None

\* C9: if the selection has a route under the requested type, that pick's route and
\* towers are returned; if it has none (key missing or route absent) the route and
\* towers of the 'fastest' pick are; the call fails only if 'fastest' has no route
\* either, and then with kind NoRoute
Thm_C9 ==
    (pc = "done" /\ Len(call_log) = 4) =>
        /\ HasRoute(request.optimization_type) =>
              /\ result.code = "Ok"
              /\ result.routes = <<selection[request.optimization_type].route>>
              /\ result.towers = selection[request.optimization_type].towers
        /\ (~HasRoute(request.optimization_type) /\ HasRoute("fastest")) =>
              /\ result.code = "Ok"
              /\ result.routes = <<selection["fastest"].route>>
              /\ result.towers = selection["fastest"].towers
        /\ (~HasRoute(request.optimization_type) /\ ~HasRoute("fastest")) =>
              result.code = "NoRoute"

\* C9 witness: the requested key is there without a route, and the result carries
\* the route and the tower of the 'fastest' pick
Wit_C9 ==
    /\ pc = "done"
    /\ request.optimization_type \in DOMAIN selection
    /\ selection[request.optimization_type].route = None
    /\ HasRoute("fastest")
    /\ Len(selection["fastest"].towers) = 1
    /\ result.code = "Ok"
    /\ result.routes = <<selection["fastest"].route>>

\* a success result has been returned
Succeeded == pc = "done" /\ result.code = "Ok"

\* C10: a success result has code Ok, exactly one route that is one of the routing
\* provider's candidates, the provider's waypoints, the towers along that route,
\* the requested type as optimization_type (also when the 'fastest' pick stood in)
\* and the tower provider's source label
Thm_C10 ==
    Succeeded =>
        /\ DOMAIN result = {"code", "routes", "waypoints", "towers", "optimization_type",
                            "tower_data_source"}
        /\ Len(result.routes) = 1
        /\ \E i \in 1..Len(route_alternatives_response.routes) :
              result.routes[1] = route_alternatives_response.routes[i]
        /\ result.waypoints = route_alternatives_response.waypoints
        /\ result.towers = find_towers_along_route(result.routes[1].geometry,
                                                   cell_towers_data.towers,
                                                   TOWER_PROXIMITY_METERS)
        /\ result.optimization_type = request.optimization_type
        /\ result.tower_data_source = cell_towers_data.source

\* C10 witness: a request of a type the selection has no key for has succeeded on
\* the 'fastest' pick, with snapped waypoints, mock towers and a tower on the route
Wit_C10 ==
    /\ Succeeded
    /\ request.optimization_type \notin OptimizationTypes
    /\ result.routes[1] = selection["fastest"].route
    /\ result.waypoints # Waypoints(request, 0)
    /\ result.tower_data_source = "mock"
    /\ Len(result.towers) > 0
    /\ Len(route_alternatives_response.routes) = 2

\* the request has ended and the routing provider's API key was not set
KeyMissingRequestDone == pc = "done" /\ GRAPHHOPPER_KEY = "" /\ ~FarApart

\* C11 as claimed: when the API key is missing the request fails with the kind
\* ConfigurationError, which is not the kind Error of a transient provider failure
Orig_C11 ==
    KeyMissingRequestDone =>
        /\ result.code = "ConfigurationError"
        /\ result.code # "Error"

\* a candidate route whose geometry is no polyline
MalformedGeometry(route) == Len(route.geometry) < 2

\* the routing provider answered Ok, with no candidate or with a malformed one, and
\* the request has ended
InternalFailureDone ==
    /\ pc = "done"
    /\ route_alternatives_response # None
    /\ route_alternatives_response.code = "Ok"
    /\ \/ Len(route_alternatives_response.routes) = 0
       \/ \E i \in 1..Len(route_alternatives_response.routes) :
             MalformedGeometry(route_alternatives_response.routes[i])

\* C12 as claimed: a request whose candidate set is empty or holds a candidate with
\* a malformed geometry ends with a failure of kind NoRoute
Orig_C12 == InternalFailureDone => result.code = "NoRoute"

\* a tower record with both coordinates, both numbers
WellFormed(tower) ==
    /\ IsMapping(tower)
    /\ "lat" \in DOMAIN tower /\ "lon" \in DOMAIN tower
    /\ IsNumber(tower.lat) /\ IsNumber(tower.lon)

\* the haversine distance of a tower and its nearest point of the search route is
\* at most 2500 m
TrulyNear(tower) ==
    With(NearestOnLine(<<tower.lon, tower.lat>>, search_route), LAMBDA ps :
        With(haversine_sq(<<tower.lon, tower.lat>>, ps.ox, ps.oy, ps.oq), LAMBDA d2 :
            d2.n <= TOWER_PROXIMITY_METERS * TOWER_PROXIMITY_METERS * d2.d))

\* the search returned a copy of the tower
Found(tower) == \E j \in 1..Len(search_result) : search_result[j].id = tower.id

\* find_towers_near_route_shapely has returned for a polyline and well-formed towers
SearchedWellFormed ==
    /\ search_pc = "near"
    /\ Len(search_route) >= 2
    /\ \A i \in 1..Len(search_towers) : WellFormed(search_towers[i])

\* C13 as claimed: a well-formed tower is returned if and only if its true distance
\* to its nearest point of the polyline is at most max_distance_meters, at any latitude
Orig_C13 ==
    SearchedWellFormed =>
        \A i \in 1..Len(search_towers) :
            Found(search_towers[i]) <=> TrulyNear(search_towers[i])

\* C14 as claimed: malformed records remove only themselves, the result is that of
\* the search on the well-formed towers of the list
Orig_C14 ==
    (search_pc = "near" /\ Len(search_route) >= 2) =>
        search_result =
            find_towers_near_route_shapely(search_route,
                                           SelectSeq(search_towers, WellFormed),
                                           TOWER_PROXIMITY_METERS)

\* C15: a call of find_towers_near_route_shapely leaves the input list as it was,
\* no input record gains 'distanceToRoute' or 'positionAlongRoute', and every
\* returned tower holds the fields of an input tower as they are plus those two
Thm_C15 ==
    [][FindTowersNearRoute =>
          /\ search_towers' = search_towers
          /\ \A i \in 1..Len(search_towers') :
                IsMapping(search_towers'[i]) =>
                    /\ "distanceToRoute" \notin DOMAIN search_towers'[i]
                    /\ "positionAlongRoute" \notin DOMAIN search_towers'[i]
          /\ \A j \in 1..Len(search_result') :
                \E i \in 1..Len(search_towers) :
                    /\ WellFormed(search_towers[i])
                    /\ DOMAIN search_result'[j] =
                          DOMAIN search_towers[i] \cup {"distanceToRoute", "positionAlongRoute"}
                    /\ \A f \in DOMAIN search_towers[i] :
                          search_result'[j][f] = search_towers[i][f]]_vars

\* C15 witness: the search has returned copies of both towers of its input
Wit_C15 ==
    /\ search_pc = "near"
    /\ Len(search_towers) = 2
    /\ Len(search_result) = 2
    /\ "distanceToRoute" \in DOMAIN search_result[1]

\* C16: a search on a route of fewer than 2 coordinates returns the empty list,
\* whatever the towers are
Thm_C16 ==
    (search_pc \in {"near", "along"} /\ Len(search_route) < 2) => search_result = <<>>

\* C16 witness: a one-point route was searched with two towers, one of them no mapping
Wit_C16 ==
    /\ search_pc = "near"
    /\ Len(search_route) = 1
    /\ Len(search_towers) = 2
    /\ \E i \in 1..2 : ~IsMapping(search_towers[i])
    /\ \E i \in 1..2 : WellFormed(search_towers[i])
    /\ search_result = <<>>

Thm_C18 ==
    [][(save_calls' = save_calls + 1) =>
          LET user == save_result'.user_id
              removed == routes_collection \ routes_collection'
          IN /\ \A d \in removed : d.user_id = user
             /\ \A other \in UserIds \ {user} :
                   RoutesOf(routes_collection', other) = RoutesOf(routes_collection, other)
             /\ save_result'.new_route_id # <<>> =>
                   /\ Cardinality(RoutesOf(routes_collection', user)) <= 3
                   /\ \E r \in RoutesOf(routes_collection', user) :
                         /\ r.id = save_result'.new_route_id[1]
                         /\ r \notin routes_collection
                   /\ \A d \in removed :
                         \A q \in RoutesOf(routes_collection, user) \ removed :
                             d.created_at <= q.created_at]_vars

\* C18 witness: a save has removed a route of its user while a newer route of that
\* user stayed and the other user holds routes as old as the removed one
Wit_C18 ==
    /\ save_result # None
    /\ save_result.new_route_id # <<>>
    /\ \E d \in save_result.ids_to_delete :
          /\ d \notin routes_collection
          /\ \E q \in RoutesOf(routes_collection, save_result.user_id) :
                d.created_at < q.created_at /\ q.id # save_result.new_route_id[1]
          /\ \E o \in routes_collection :
                o.user_id # save_result.user_id /\ o.created_at <= d.created_at
    /\ Cardinality(RoutesOf(routes_collection, save_result.user_id)) = 3

\* the registered account's document
Account == users_collection[RegisteredEmail]

\* a login_user call for the registered account returns in this step
LoginCallReturns ==
    /\ login_calls' = login_calls + 1
    /\ login_result'.email = RegisteredEmail

\* the failed attempt that brings failed_login_attempts to 7 sets lockout_until
SeventhFailureLocks ==
    (LoginCallReturns /\ Account.failed_login_attempts = 6
        /\ Account'.failed_login_attempts = 7) =>
            /\ Account'.lockout_until # <<>>
            /\ Account'.lockout_until[1] > utc_now

\* lockout_until is set and in the future
LockoutInForce == Account.lockout_until # <<>> /\ Account.lockout_until[1] > utc_now

\* C19 as claimed: the seventh failed attempt sets lockout_until, and while it is in
\* the future every login_user call for the account returns the account-locked
\* error and leaves the user document unchanged
Orig_C19 ==
    [][/\ SeventhFailureLocks
       /\ (LoginCallReturns /\ LockoutInForce) =>
             /\ login_result'.message = LockedMessage
             /\ users_collection' = users_collection]_vars

\* C19 amended: the seventh failed attempt sets lockout_until, and while it is in
\* the future every login_user call for the account leaves the user document
\* unchanged and fails: with the account-locked error if a password is given, also
\* the correct one, and with the error for a missing password otherwise
Thm_C19 ==
    [][/\ SeventhFailureLocks
       /\ (LoginCallReturns /\ LockoutInForce) =>
             /\ ~login_result'.ok
             /\ login_result'.message =
                   IF login_result'.password = "" THEN RequiredMessage ELSE LockedMessage
             /\ users_collection' = users_collection]_vars

\* C19 witness: 14 minutes into the lockout set by the seventh failed attempt the
\* correct password was refused with the account-locked error
Wit_C19 ==
    /\ login_result # None
    /\ login_result.email = RegisteredEmail
    /\ login_result.password = Account.password
    /\ login_result.message = LockedMessage
    /\ Account.failed_login_attempts = 7
    /\ Account.lockout_until # <<>>
    /\ Account.lockout_until[1] = utc_now + 1

\* candidate j comes before candidate k in the signal ranking: higher avg_signal,
\* then higher tower_count, then lower original index
RankedBefore(j, k) ==
    \/ RLess(routes_scored[k].avg_signal, routes_scored[j].avg_signal)
    \/ /\ REq(routes_scored[j].avg_signal, routes_scored[k].avg_signal)
       /\ \/ routes_scored[j].tower_count > routes_scored[k].tower_count
          \/ /\ routes_scored[j].tower_count = routes_scored[k].tower_count
             /\ j < k

\* the first candidate of the signal ranking among those of the set S
FirstRanked(S) == CHOOSE j \in S : \A k \in S \ {j} : RankedBefore(j, k)

\* the candidate the greedy rule gives 'cell_coverage'
GreedyCellCoverage ==
    LET all == 1..NumCandidates
        fastest == selected_indices["fastest"] + 1
    IN IF NumCandidates = 1 \/ FirstRanked(all) # fastest
       THEN FirstRanked(all)
       ELSE FirstRanked(all \ {fastest})

\* C20: the 'cell_coverage' pick is the top of the ranking by avg_signal
\* descending, tower_count descending, original index, unless that is the
\* 'fastest' pick and there are two candidates or more: then it is the first
\* candidate after the top in that ranking that is not the 'fastest' pick
Thm_C20 ==
    (Returned /\ NumCandidates >= 1) =>
        selected_indices["cell_coverage"] + 1 = GreedyCellCoverage

\* C20 witness: of three candidates the top of the ranking is the 'fastest'
\* pick, the next two have equal avg_signal, and 'cell_coverage' went to the
\* one with more towers which is the later of the two in the input
Wit_C20 ==
    /\ Returned
    /\ NumCandidates = 3
    /\ FirstRanked(1..NumCandidates) = selected_indices["fastest"] + 1
    /\ \E j \in 1..NumCandidates :
          /\ j # selected_indices["fastest"] + 1
          /\ j < selected_indices["cell_coverage"] + 1
          /\ REq(routes_scored[j].avg_signal,
                 routes_scored[selected_indices["cell_coverage"] + 1].avg_signal)
          /\ routes_scored[j].tower_count <
                routes_scored[selected_indices["cell_coverage"] + 1].tower_count

\* candidate j comes before candidate k in the balanced ranking: higher
\* balanced_score, then lower original index
BalancedBefore(j, k) ==
    \/ RLess(routes_scored[k].balanced_score, routes_scored[j].balanced_score)
    \/ /\ REq(routes_scored[j].balanced_score, routes_scored[k].balanced_score)
       /\ j < k

\* the first candidate of the balanced ranking among those of the set S
FirstBalanced(S) == CHOOSE j \in S : \A k \in S \ {j} : BalancedBefore(j, k)

\* the candidates (1-based) already picked for 'fastest' and 'cell_coverage'
UsedBeforeBalanced ==
    {selected_indices["fastest"] + 1, selected_indices["cell_coverage"] + 1}

\* the candidate the greedy rule gives 'balanced'
GreedyBalanced ==
    LET all == 1..NumCandidates
    IN IF FirstBalanced(all) \notin UsedBeforeBalanced \/ all \subseteq UsedBeforeBalanced
       THEN FirstBalanced(all)
       ELSE FirstBalanced(all \ UsedBeforeBalanced)

CandidateDurations == {routes_scored[j].duration : j \in 1..NumCandidates}
CandidateSignals == {routes_scored[j].avg_signal : j \in 1..NumCandidates}

\* C22 as claimed: a range is replaced by 1 only when it is 0, so whenever the
\* durations are not all equal the slowest candidate has norm_duration = 0, and
\* whenever the avg_signal values are not all equal the best has norm_signal = 1
Orig_C22 ==
    (Returned /\ NumCandidates >= 1) =>
        \A j \in 1..NumCandidates :
            /\ (Cardinality(CandidateDurations) > 1
                  /\ REq(routes_scored[j].duration, RMaxOf(CandidateDurations)))
                  => REq(routes_scored[j].norm_duration, RInt(0))
            /\ (Cardinality(CandidateSignals) > 1
                  /\ REq(routes_scored[j].avg_signal, RMaxOf(CandidateSignals)))
                  => REq(routes_scored[j].norm_signal, RInt(1))

\* x lies in [0, 1]
InUnitInterval(x) == RLeq(RInt(0), x) /\ RLeq(x, RInt(1))

\* C23: for a non-empty candidate set every norm_duration, norm_signal and
\* balanced_score lies in [0, 1], balanced_score is the mean of the two
\* normalised scores, a candidate of minimum duration has norm_duration = 1
\* and a candidate of minimum avg_signal has norm_signal = 0
Thm_C23 ==
    (Returned /\ NumCandidates >= 1) =>
        \A j \in 1..NumCandidates :
            /\ InUnitInterval(routes_scored[j].norm_duration)
            /\ InUnitInterval(routes_scored[j].norm_signal)
            /\ InUnitInterval(routes_scored[j].balanced_score)
            /\ REq(RAdd(routes_scored[j].balanced_score, routes_scored[j].balanced_score),
                   RAdd(routes_scored[j].norm_duration, routes_scored[j].norm_signal))
            /\ REq(routes_scored[j].duration, RMinOf(CandidateDurations))
                  => REq(routes_scored[j].norm_duration, RInt(1))
            /\ REq(routes_scored[j].avg_signal, RMinOf(CandidateSignals))
                  => REq(routes_scored[j].norm_signal, RInt(0))

\* C23 witness: three candidates of three durations and three avg_signal values,
\* one of them with both normalised scores strictly inside (0, 1)
Wit_C23 ==
    /\ Returned
    /\ NumCandidates = 3
    /\ Cardinality(CandidateDurations) = 3
    /\ Cardinality(CandidateSignals) = 3
    /\ \E j \in 1..NumCandidates :
          /\ RLess(RInt(0), routes_scored[j].norm_duration)
          /\ RLess(routes_scored[j].norm_duration, RInt(1))
          /\ RLess(RInt(0), routes_scored[j].norm_signal)
          /\ RLess(routes_scored[j].norm_signal, RInt(1))

\* what the proximity search gives for a geometry and the towers of the call
TowersAlong(geometry) ==
    find_towers_along_route(geometry, towers_in_area, TOWER_PROXIMITY_METERS)

\* C24: under each key the returned towers are what the proximity search
\* (2500 m) gives for the geometry of the candidate returned under that key,
\* and a candidate with no towers along it has tower_count 0 and avg_signal -120
Thm_C24 ==
    (Returned /\ NumCandidates >= 1) =>
        /\ \A k \in OptimizationTypes :
              /\ selection[k].route = alternative_routes[selected_indices[k] + 1]
              /\ selection[k].towers = TowersAlong(selection[k].route.geometry)
        /\ \A j \in 1..NumCandidates :
              /\ routes_scored[j].tower_count =
                    Len(TowersAlong(alternative_routes[j].geometry))
              /\ (TowersAlong(alternative_routes[j].geometry) = <<>>) =>
                    REq(routes_scored[j].avg_signal, RInt(-120))

\* C24 witness: the diversity pass replaced the top of the signal ranking, the
\* 'cell_coverage' pick has other towers than the top and than the 'fastest'
\* pick, and one of the three candidates has no towers along it
Wit_C24 ==
    /\ Returned
    /\ NumCandidates = 3
    /\ selected_indices["cell_coverage"] + 1 # FirstRanked(1..NumCandidates)
    /\ selection["cell_coverage"].towers # selection["fastest"].towers
    /\ selection["cell_coverage"].towers # <<>>
    /\ \E j \in 1..NumCandidates : routes_scored[j].tower_count = 0

\* the steps of a request in their order
RequestSteps == <<"precheck", "routing", "towers", "select">>

\* C25: the steps taken are an initial part of precheck, routing provider, tower
\* provider, selection, so that each provider is called at most once, and the
\* tower provider and the selector run only after the routing provider
\* answered Ok with at least one route
Thm_C25 ==
    /\ Len(call_log) <= Len(RequestSteps)
    /\ \A i \in 1..Len(call_log) : call_log[i] = RequestSteps[i]
    /\ (\E i \in 1..Len(call_log) : call_log[i] \in {"towers", "select"}) =>
          /\ route_alternatives_response # None
          /\ route_alternatives_response.code = "Ok"
          /\ Len(route_alternatives_response.routes) >= 1

\* C25 witness: a request went through all four steps and returned a route
Wit_C25 ==
    /\ pc = "done"
    /\ call_log = RequestSteps
    /\ result.code = "Ok"
    /\ Len(route_alternatives_response.routes) = 2

\* the polyline of the call has planar length 0: all its points are one point
ZeroLengthRoute == \A i \in 1..Len(search_route) : search_route[i] = search_route[1]

\* C26: every tower find_towers_near_route_shapely returns has its
\* positionAlongRoute in [0, 1] and its distanceToRoute between 0 and the
\* maximum distance, the list is ascending by positionAlongRoute, and for a
\* polyline of planar length 0 every position is 0
Thm_C26 ==
    (search_pc = "near") =>
        /\ \A i \in 1..Len(search_result) :
              /\ InUnitInterval(search_result[i].positionAlongRoute)
              /\ search_result[i].distanceToRoute >= 0
              /\ search_result[i].distanceToRoute <= TOWER_PROXIMITY_METERS
              /\ ZeroLengthRoute => REq(search_result[i].positionAlongRoute, RInt(0))
        /\ \A i \in 1..(Len(search_result) - 1) :
              RLeq(search_result[i].positionAlongRoute,
                   search_result[i + 1].positionAlongRoute)

\* C26 witness: the search along a polyline of length 0 returned two towers,
\* both at position 0 and off the polyline
Wit_C26 ==
    /\ search_pc = "near"
    /\ search_route = GZeroLength
    /\ Len(search_result) = 2
    /\ \A i \in 1..2 :
          /\ REq(search_result[i].positionAlongRoute, RInt(0))
          /\ search_result[i].distanceToRoute > 0

\* the cap of find_towers_along_route acts in this step
CapReturns == search_pc = "nearby" /\ search_pc' = "sampled"

\* the place in the search result of the i-th returned tower
PlaceOf(i) == CHOOSE k \in 1..Len(search_result) : search_result[k] = search_result'[i]

\* what C27 says of every result, whatever the indices: at most 200 towers, all
\* of them when the search found 200 or fewer, else exactly 200 that are an
\* order-preserving subsequence of distinct places which begins with the first
CappedInOrder ==
    /\ Len(search_result') <= MAX_TOWERS_ALONG_ROUTE
    /\ (Len(search_result) <= MAX_TOWERS_ALONG_ROUTE) => search_result' = search_result
    /\ (Len(search_result) > MAX_TOWERS_ALONG_ROUTE) =>
          /\ Len(search_result') = MAX_TOWERS_ALONG_ROUTE
          /\ \A i \in 1..Len(search_result') :
                \E k \in 1..Len(search_result) : search_result[k] = search_result'[i]
          /\ PlaceOf(1) = 1
          /\ \A i \in 1..(Len(search_result') - 1) :
                /\ PlaceOf(i) < PlaceOf(i + 1)
                /\ RLeq(search_result'[i].positionAlongRoute,
                        search_result'[i + 1].positionAlongRoute)

\* C27 as claimed: the 200 towers are those at the indices floor(i * n / 200)
Orig_C27 ==
    [][CapReturns =>
          /\ CappedInOrder
          /\ (Len(search_result) > MAX_TOWERS_ALONG_ROUTE) =>
                \A i \in 1..Len(search_result') :
                    PlaceOf(i) - 1 =
                        ((i - 1) * Len(search_result)) \div MAX_TOWERS_ALONG_ROUTE]_vars

\* C27 amended: the 200 towers are those at the indices floor(i * n / 200) or,
\* where i * n / 200 is an integer, possibly one below it
Thm_C27 ==
    [][CapReturns =>
          /\ CappedInOrder
          /\ (Len(search_result) > MAX_TOWERS_ALONG_ROUTE) =>
                \A i \in 1..Len(search_result') :
                    \/ PlaceOf(i) - 1 =
                          ((i - 1) * Len(search_result)) \div MAX_TOWERS_ALONG_ROUTE
                    \/ /\ ((i - 1) * Len(search_result)) % MAX_TOWERS_ALONG_ROUTE = 0
                       /\ PlaceOf(i) - 1 =
                             (((i - 1) * Len(search_result)) \div MAX_TOWERS_ALONG_ROUTE) - 1]_vars

\* C27 witness: of 205 towers 200 were returned, the 121st of them from index
\* 122 of the search result and the last from index 203
Wit_C27 ==
    /\ search_pc = "sampled"
    /\ Len(search_towers) = 205
    /\ Len(search_result) = MAX_TOWERS_ALONG_ROUTE
    /\ search_result[121].id = search_towers[123].id
    /\ search_result[200].id = search_towers[204].id

\* the route is a line, the tower has coordinates, and its distance to the start
\* of the route, as haversine_distance gives it, is infinite
InfinitelyFar(tower) ==
    /\ Len(search_route) >= 2
    /\ IsMapping(tower)
    /\ {"lat", "lon"} \subseteq DOMAIN tower
    /\ haversine_distance(tower.lat, tower.lon,
                          search_route[1][2], search_route[1][1]) = Infinity

\* C28: haversine_distance returns infinity for a coordinate that is no number,
\* and find_towers_near_route_shapely returns no tower whose distance is
\* infinite: none of the input whose coordinates give an infinite distance,
\* and none with an infinite distanceToRoute
Thm_C28 ==
    /\ (haversine_args # <<>>
          /\ \E i \in 1..Len(haversine_args) : ~IsNumber(haversine_args[i]))
          => haversine_result = Infinity
    /\ (search_pc = "near") =>
          /\ \A i \in 1..Len(search_result) : search_result[i].distanceToRoute < Infinity
          /\ \A i \in 1..Len(search_towers) :
                InfinitelyFar(search_towers[i]) =>
                    \A j \in 1..Len(search_result) :
                        search_result[j].id # search_towers[i].id

\* C28 witness: haversine_distance got a longitude that is no number and
\* returned infinity, and a search over a tower with a latitude that is no
\* number and a tower near the route returned the near tower alone
Wit_C28 ==
    /\ haversine_args # <<>>
    /\ haversine_args[1] = 0
    /\ haversine_args[2] = NotANumber
    /\ haversine_result = Infinity
    /\ search_pc = "near"
    /\ Len(search_towers) = 2
    /\ \E i \in 1..2 : InfinitelyFar(search_towers[i])
    /\ Len(search_result) = 1

\* C29 as claimed: when every concurrent save_route call for the user has
\* completed, the user has at most MAX_SAVED_ROUTES saved routes
Orig_C29 ==
    (\A t \in DOMAIN save_threads : save_threads[t].pc = "idle") =>
        Cardinality(RoutesOf(routes_collection, ConcurrentUser)) <= MAX_SAVED_ROUTES

\* C30 as claimed: under concurrent failed login_user calls the stored document
\* never has failed_login_attempts >= MAX_LOGIN_ATTEMPTS while lockout_until is
\* unset, that is, not set since the counter was last reset
Orig_C30 ==
    (login_threads # <<>> /\ Account.failed_login_attempts >= MAX_LOGIN_ATTEMPTS) =>
        Account.lockout_until # <<>>

=============================================================================
